---- MODULE Spec2Model ----
(***************************************************************************)
(* Restore/transfer reconciliation engine of vat (package vat, restore.go) *)
(* modelled as a state machine.  One invocation of RestoreAssessment is a  *)
(* sequence of steps, one per blocking remote call; the local computation  *)
(* between two remote calls belongs to the step of the earlier call.       *)
(***************************************************************************)
EXTENDS Integers, Sequences, FiniteSets, Bags, TLC

VARIABLES
    target,        \* the remote store: orgs, tools, assessments, library assessments, templates
    ad,            \* the caller's in-memory snapshot (*AssessmentData)
    opts,          \* *RestoreOptionalParams
    pc,            \* position of the invocation in RestoreAssessment
    oi,            \* index of the next entry of ad.Organizations to look up
    missing_orgs,  \* local missing_orgs
    org_map,       \* local org_map
    tool_map,      \* local tool_map
    calls,         \* remote calls issued by the current invocation, in order
    result,        \* the error returned by the invocation ("running" until it returns)
    runs,          \* number of invocations started so far
    campaign_map,  \* local campaign_map of restoreCampaigns
    ci,            \* index of the campaign whose test cases are being restored
    pending,       \* test-case create requests of campaign ci not yet sent
    log,           \* slog error records of the current invocation
    library_assessment_found,     \* restore.go: whether t.LibraryAssessments.Nodes is non-empty
    template_input,               \* restore.go: library ids of input.TestCaseTemplateData
    instance_library_test_case,   \* restore.go: local map library id -> template test case
    entry,                 \* the entry point of the invocation: RestoreAssessment or RestoreCampaign
    sourceCampaignName,    \* RestoreCampaign: the campaign of the snapshot to restore
    targetAssessmentName,  \* RestoreCampaign: the existing assessment that receives it
    g,             \* GroupedCreateTestCaseWithLibraryIdInput.TestCases (grouper specification)
    added,         \* test cases passed to Add so far, in order (grouper specification)
    inserts,       \* last value returned by GenerateInsertsData (grouper specification)
    pin,           \* argument of ParseLibraryTestcasesByIdsError (parser specification)
    pout,          \* its result (parser specification)
    databaseAssessmentPairs,  \* Filter.databaseAssessmentPairs (filter specification)
    checked,       \* the last CheckAssessment query and its result (filter specification)
    nodes,         \* assessment.Assessments.Nodes, what GetAllAssessments answers (save specification)
    data           \* the *AssessmentData of SaveAssessmentData, nil once it fails (save specification)

backfillVars == <<library_assessment_found, template_input, instance_library_test_case>>
campaignVars == <<entry, sourceCampaignName, targetAssessmentName>>
restoreVars == <<target, ad, opts, pc, oi, missing_orgs, org_map, tool_map, calls, result, runs,
                 campaign_map, ci, pending, log, backfillVars, campaignVars>>
grouperVars == <<g, added, inserts>>
parserVars == <<pin, pout>>
filterVars == <<databaseAssessmentPairs, checked>>
saveVars == <<nodes, data>>
vars == <<target, ad, opts, pc, oi, missing_orgs, org_map, tool_map, calls, result, runs,
          campaign_map, ci, pending, log, library_assessment_found, template_input,
          instance_library_test_case, entry, sourceCampaignName, targetAssessmentName,
          g, added, inserts, pin, pout, databaseAssessmentPairs, checked,
          nodes, data>>

----------------------------------------------------------------------------
(* Bounds *)

MaxOrgs == 2
MaxRuns == 2
MaxTestCases == 2
MaxAdds == 6
MaxBody == 4
MaxRecords == 3

----------------------------------------------------------------------------
(* Generic helpers *)

Range(s) == {s[k] : k \in DOMAIN s}

SeqsUpTo(S, n) == UNION {[1..k -> S] : k \in 0..n}

EmptyMap == [x \in {} |-> x]

----------------------------------------------------------------------------
(* Errors.  An error value records the sentinel it wraps (errors.Is) and   *)
(* what its message names.                                                 *)

NoError == [err |-> "nil", info |-> <<>>]
Running == [err |-> "running", info |-> <<>>]

ErrOrgNotFound(names) == [err |-> "ErrOrgNotFound", info |-> names]
ErrMissingTools == [err |-> "ErrMissingTools", info |-> <<>>]
\* fmt.Errorf("in assessment data for '%s': %w: %s", ad.Assessment.Name, ErrCampaignNotFound, name)
ErrCampaignNotFound(assessment, name) ==
    [err |-> "ErrCampaignNotFound", info |-> [assessment |-> assessment, campaign |-> name]]
\* fmt.Errorf("target assessment '%s' not found in database '%s'", targetAssessmentName, db)
ErrTargetAssessmentNotFound(name) == [err |-> "target assessment not found", info |-> name]
ErrAssessmentAlreadyExists(name) == [err |-> "ErrAssessmentAlreadyExists", info |-> <<name>>]

\* fmt.Errorf("...: %w", err) around the error a remote call returned
WrapRemote(e) == [err |-> "remote", info |-> e]

\* fmt.Errorf("...: %w", err) around the error ParseLibraryTestcasesByIdsError returned
WrapParse(e) == [err |-> "parse", info |-> e]

\* the extensions["ids"] value of a GraphQL error entry
Ext(present, islist, elems) == [present |-> present, islist |-> islist, elems |-> elems]
NoExt == Ext(FALSE, FALSE, <<>>)
Str(s) == [isstr |-> TRUE, s |-> s]
NonStr == [isstr |-> FALSE, s |-> <<>>]

\* a gqlerror.List of n entries whose first entry has the path and the extension
GqlList(op, n, path, ext) == [op |-> op, list |-> TRUE, n |-> n, path |-> path, ext |-> ext]

\* the error a failed remote call returns when it is no gqlerror.List
RemoteError(op) == [op |-> op, list |-> FALSE, n |-> 0, path |-> "", ext |-> NoExt]

----------------------------------------------------------------------------
(* The target environment and the snapshots *)

OrgNames == {"o1", "o2", "o3"}
ToolNames == {"t1", "t2", "t3"}

TargetOrgs == {"o1"}
TargetTools == [n \in {"t1", "t2"} |-> [Id |-> "T-" \o n, Name |-> n]]

SourceTool(n) == [Id |-> "S-" \o n, Name |-> n]

\* dao.TestCaseStatus: the canonical enumeration of the write API
TestCaseStatusAbandon == "TestCaseStatusAbandon"
TestCaseStatusNotperformed == "TestCaseStatusNotperformed"
TestCaseStatusCompleted == "TestCaseStatusCompleted"
TestCaseStatusInprogress == "TestCaseStatusInprogress"
TestCaseStatusPaused == "TestCaseStatusPaused"

CanonicalStatuses == {TestCaseStatusAbandon, TestCaseStatusNotperformed, TestCaseStatusCompleted,
                      TestCaseStatusInprogress, TestCaseStatusPaused}

\* the table with the two display forms passed through unchanged
outcomeStatusMapNoAliases ==
    [st \in CanonicalStatuses \cup {"Abandoned", "Not Performed"} |-> st]

\* var outcomeStatusMap
outcomeStatusMap ==
    (TestCaseStatusAbandon :> TestCaseStatusAbandon)
    @@ ("Abandoned" :> TestCaseStatusAbandon)
    @@ (TestCaseStatusNotperformed :> TestCaseStatusNotperformed)
    @@ (TestCaseStatusCompleted :> TestCaseStatusCompleted)
    @@ (TestCaseStatusInprogress :> TestCaseStatusInprogress)
    @@ (TestCaseStatusPaused :> TestCaseStatusPaused)
    @@ ("Not Performed" :> TestCaseStatusNotperformed)

\* A serialized test case of a campaign: the fields the restore decides on.
TestCase(name, status, lib, outcomes) ==
    [Name |-> name, Status |-> status, LibraryTestCaseId |-> lib, DefenseToolOutcomes |-> outcomes]

Campaign(name, tcs) == [Name |-> name, TestCases |-> tcs]

\* A library (template) test case of the snapshot, keyed by its library id.
LibraryTestCase(id) == [LibraryTestCaseId |-> id, Name |-> "tmpl-" \o id]

\* VatOpMetadata of the save side, as carried by a snapshot read from a file
SaveStamp == [Version |-> "v1", Date |-> "d0", VectrVersion |-> "9.0"]
\* a nil *VatOpMetadata
NilStamp == [Version |-> "nil", Date |-> "nil", VectrVersion |-> "nil"]

\* *AssessmentData
Snapshot(orgs, tools, tmpl, libs, camps) ==
    [Organizations |-> orgs,
     ToolsMap |-> [n \in tools |-> SourceTool(n)],
     IdToolsMap |-> [id \in {SourceTool(n).Id : n \in tools} |->
                        CHOOSE t \in {SourceTool(n) : n \in tools} : t.Id = id],
     TemplateAssessment |-> tmpl,
     LibraryTestCases |-> [id \in libs |-> LibraryTestCase(id)],
     Assessment |-> [Name |-> "A",
                     Metadata |-> SetToBag({[Key |-> "prefix", Value |-> "px"]}),
                     Campaigns |-> camps],
     Metadata |-> [SaveData |-> SaveStamp, LoadData |-> NilStamp]]

\* *RestoreOptionalParams
Options(name, override) == [AssessmentName |-> name, OverrideAssessmentTemplate |-> override]

\* The remote store at the start: what its reads answer from.
Target(assessments, libAssessments, templates) ==
    [orgs |-> TargetOrgs, tools |-> TargetTools, assessments |-> assessments,
     libAssessments |-> libAssessments, templates |-> templates]

----------------------------------------------------------------------------
(* Provenance metadata (metadata.go) *)

\* the version values the invocation's context carries
CtxVersion == "v2"
CtxVectrVersion == "9.1"

\* NewVatOpMetadata(ctx) called at time now
NewVatOpMetadata(now) ==
    [Version |-> CtxVersion, Date |-> "d" \o ToString(now), VectrVersion |-> CtxVectrVersion]

NoneFound(v) == IF v = "" THEN "none_found" ELSE v

\* (*VatOpMetadata).serialize
serialize(v) ==
    ("version" :> NoneFound(v.Version))
    @@ ("date" :> NoneFound(v.Date))
    @@ ("vectr-version" :> NoneFound(v.VectrVersion))

PrefixKeys(prefix, m) == [k \in {prefix \o x : x \in DOMAIN m} |->
                             m[CHOOSE x \in DOMAIN m : prefix \o x = k]]

\* (*VatMetadata).Serialize
Serialize(v) ==
    (IF v.LoadData # NilStamp THEN PrefixKeys("vat-load-", serialize(v.LoadData)) ELSE EmptyMap)
    @@ (IF v.SaveData # NilStamp THEN PrefixKeys("vat-save-", serialize(v.SaveData)) ELSE EmptyMap)

\* loadVatMetadata: the pairs are appended in map order, which Go leaves
\* unspecified; the metadata list is kept as a bag of pairs.
loadVatMetadata(md, vatMetadata) ==
    LET m == Serialize(vatMetadata)
    IN md (+) SetToBag({[Key |-> k, Value |-> m[k]] : k \in DOMAIN m})

----------------------------------------------------------------------------
(* TestCaseBatchGrouper: GroupedCreateTestCaseWithLibraryIdInput *)

Perms(S) == {p \in [1..Cardinality(S) -> S] : \A a, b \in 1..Cardinality(S) : a # b => p[a] # p[b]}

\* NewGroupedCreateTestCaseWithLibraryIdInput
NewGroupedCreateTestCaseWithLibraryIdInput(td) ==
    [Base |-> [Db |-> td.Db, CampaignId |-> td.CampaignId], TestCases |-> EmptyMap]

\* Add made to start the bucket anew each time
AddReplacing(gr, tcd) ==
    LET id == tcd.LibraryTestCaseId
    IN [gr EXCEPT !.TestCases = (id :> <<tcd>>) @@ gr.TestCases]

\* Add keyed by the test case name instead of the library id
AddByName(gr, tcd) ==
    LET id == tcd.TestCaseData.Name
        tcs == IF id \in DOMAIN gr.TestCases THEN gr.TestCases ELSE (id :> <<>>) @@ gr.TestCases
    IN [gr EXCEPT !.TestCases = [tcs EXCEPT ![id] = Append(@, tcd)]]

\* (*GroupedCreateTestCaseWithLibraryIdInput).Add
Add(gr, tcd) ==
    LET id == tcd.LibraryTestCaseId
        tcs == IF id \in DOMAIN gr.TestCases THEN gr.TestCases ELSE (id :> <<>>) @@ gr.TestCases
    IN [gr EXCEPT !.TestCases = [tcs EXCEPT ![id] = Append(@, tcd)]]

RECURSIVE SumLen(_, _)
SumLen(m, keys) ==
    IF keys = {} THEN 0
    ELSE LET k == CHOOSE x \in keys : TRUE IN Len(m[k]) + SumLen(m, keys \ {k})

\* (*GroupedCreateTestCaseWithLibraryIdInput).Len
GrouperLen(gr) == SumLen(gr.TestCases, DOMAIN gr.TestCases)

\* maxSize taken to be the number of buckets
BucketCount(gr) == Cardinality(DOMAIN gr.TestCases)

\* maxSize of GenerateInsertsData
MaxSize(gr) ==
    IF DOMAIN gr.TestCases = {} THEN 0
    ELSE CHOOSE n \in {Len(gr.TestCases[k]) : k \in DOMAIN gr.TestCases} :
            \A k \in DOMAIN gr.TestCases : Len(gr.TestCases[k]) <= n

\* the inner loop made to take the entries from the end of each bucket
BatchInputsFromEnd(gr, ord, n) ==
    LET keep == SelectSeq(ord, LAMBDA k : Len(gr.TestCases[k]) >= n)
    IN [j \in 1..Len(keep) |-> gr.TestCases[keep[j]][Len(gr.TestCases[keep[j]]) - n + 1]]

\* the inner loop of GenerateInsertsData for index n (1-based), ranging over
\* the buckets in the order ord
BatchInputs(gr, ord, n) ==
    LET keep == SelectSeq(ord, LAMBDA k : Len(gr.TestCases[k]) >= n)
    IN [j \in 1..Len(keep) |-> gr.TestCases[keep[j]][n]]

\* the buckets that have an n-th entry
LiveKeys(gr, n) == {k \in DOMAIN gr.TestCases : Len(gr.TestCases[k]) >= n}

\* the iteration orders a run of GenerateInsertsData may see, one per batch:
\* Go ranges over a map in an unspecified order, anew each time.  An order
\* lists the buckets the range visits that have an entry for the batch; the
\* place of the others in the range changes nothing.
RECURSIVE OrdersFrom(_, _)
OrdersFrom(gr, n) ==
    IF n > MaxSize(gr) THEN {<<>>}
    ELSE {<<p>> \o rest : p \in Perms(LiveKeys(gr, n)), rest \in OrdersFrom(gr, n + 1)}

IterationOrders(gr) == OrdersFrom(gr, 1)

\* (*GroupedCreateTestCaseWithLibraryIdInput).GenerateInsertsData
GenerateInsertsData(gr, ords) ==
    IF MaxSize(gr) = 0 THEN <<>>
    ELSE [k \in 1..MaxSize(gr) |->
             [Db |-> gr.Base.Db, CampaignId |-> gr.Base.CampaignId,
              CreateTestCaseInputs |-> BatchInputs(gr, ords[k], k)]]

----------------------------------------------------------------------------
(* ErrorClassifier: strings are sequences of tokens.  "P" is the text      *)
(* "The following IDs were not valid", a library id stands for its own     *)
(* canonical UUID text, "x" is any other text.                             *)

Uuids == {"L1", "L2"}

ShortPrefix == <<"P">>
LongPrefix == <<"P", ":", " ">>
Separator == <<",", " ">>

\* strings.HasPrefix
HasPrefix(s, p) == Len(s) >= Len(p) /\ SubSeq(s, 1, Len(p)) = p

\* strings.TrimPrefix
TrimPrefix(s, p) == IF HasPrefix(s, p) THEN SubSeq(s, Len(p) + 1, Len(s)) ELSE s

\* strings.Split
RECURSIVE Split(_, _)
Split(s, sep) ==
    LET at == {k \in 1..Len(s) : k + Len(sep) - 1 <= Len(s) /\ SubSeq(s, k, k + Len(sep) - 1) = sep}
    IN IF at = {} THEN <<s>>
       ELSE LET k == CHOOSE x \in at : \A y \in at : x <= y
            IN <<SubSeq(s, 1, k - 1)>> \o Split(SubSeq(s, k + Len(sep), Len(s)), sep)

\* strings.TrimSpace
RECURSIVE TrimSpace(_)
TrimSpace(s) ==
    IF s = <<>> THEN s
    ELSE IF Head(s) = " " THEN TrimSpace(Tail(s))
    ELSE IF s[Len(s)] = " " THEN TrimSpace(SubSeq(s, 1, Len(s) - 1))
    ELSE s

\* uuid.Parse returns no error
UuidParses(s) == Len(s) = 1 /\ s[1] \in Uuids

\* the parser made to skip the entries that are no UUID
ParseSkippingMalformed(e) ==
    IF ~HasPrefix(e, LongPrefix) THEN [ids |-> <<>>, err |-> "no prefix"]
    ELSE LET ids == Split(TrimPrefix(e, LongPrefix), Separator)
             trimmed == [k \in DOMAIN ids |-> TrimSpace(ids[k])]
             good == SelectSeq(trimmed, UuidParses)
         IN IF Len(good) = 0 THEN [ids |-> <<>>, err |-> "no valid UUIDs"]
            ELSE [ids |-> [k \in DOMAIN good |-> good[k][1]], err |-> "nil"]

\* ParseLibraryTestcasesByIdsError: the ids, and the error ("nil" for none)
ParseLibraryTestcasesByIdsError(e) ==
    IF ~HasPrefix(e, LongPrefix) THEN [ids |-> <<>>, err |-> "no prefix"]
    ELSE LET ids == Split(TrimPrefix(e, LongPrefix), Separator)
             trimmed == [k \in DOMAIN ids |-> TrimSpace(ids[k])]
         IN IF \E k \in DOMAIN trimmed : ~UuidParses(trimmed[k])
            THEN [ids |-> <<>>, err |-> "could not parse"]
            ELSE IF Len(trimmed) = 0 THEN [ids |-> <<>>, err |-> "no valid UUIDs"]
            ELSE [ids |-> [k \in DOMAIN trimmed |-> trimmed[k][1]], err |-> "nil"]

----------------------------------------------------------------------------
(* Remote calls *)

ReadOps == {"FindOrganization", "GetAllDefenseTools", "FindExistingAssessment",
            "FindLibraryAssessment", "GetLibraryTestCases"}
WriteOps == {"CreateTemplateTestCases", "CreateAssessment", "CreateCampaigns",
             "CreateTestCasesByLibraryId", "CreateTestCasesNoTemplate", "CreateTestCases"}

Call(op, arg) == [op |-> op, arg |-> arg]

Writes(cs) == SelectSeq(cs, LAMBDA c : c.op \in WriteOps)
CallsOf(cs, op) == SelectSeq(cs, LAMBDA c : c.op = op)

\* mutant: the error is recorded and the step is taken again
ReturnAndGoOn(e) == result' = e /\ UNCHANGED pc

\* return err: the invocation ends with the error e
Return(e) == result' = e /\ pc' = "done"

\* the organization node the target returns for an exact-name lookup
OrgNode(o) == [Id |-> "org-" \o o, Name |-> o]

\* org_map[name].Id, the zero value when the name has no entry
OrgId(om, name) == IF name \in DOMAIN om THEN om[name].Id ELSE ""

----------------------------------------------------------------------------
(* RestoreAssessment, steps 1 and 2: validateRestorePrerequisites *)

\* entry of RestoreAssessment with the options o: the load-side stamp, then
\* validation begins
Enter(o) ==
    /\ runs < MaxRuns
    /\ runs' = runs + 1
    /\ opts' = o
    /\ ad' = [ad EXCEPT !.Metadata.LoadData = NewVatOpMetadata(runs + 1)]
    /\ calls' = <<>>
    /\ log' = <<>>
    /\ result' = Running
    /\ oi' = 1
    /\ missing_orgs' = <<>>
    /\ org_map' = EmptyMap
    /\ tool_map' = EmptyMap
    /\ campaign_map' = EmptyMap
    /\ ci' = 1
    /\ pending' = <<>>
    /\ pc' = IF Len(ad.Organizations) = 0 THEN "tools" ELSE "orgs"
    /\ entry' = "RestoreAssessment"
    /\ UNCHANGED <<target, backfillVars, sourceCampaignName, targetAssessmentName,
                   grouperVars, parserVars, filterVars, saveVars>>

\* the caller invokes RestoreAssessment on the snapshot it loaded
RestoreAssessment ==
    /\ pc = "idle"
    /\ Enter(opts)

\* after a successful restore the caller restores the same in-memory snapshot
\* again, with any options
RestoreAgain ==
    /\ pc = "done"
    /\ result.err = "nil"
    /\ \E name \in {"", "B"}, override \in BOOLEAN : Enter(Options(name, override))

\* the organization loop made to return at the first name that has no match
FindOrganizationStopAtFirstMiss ==
    /\ pc = "orgs"
    /\ LET o == ad.Organizations[oi]
       IN /\ calls' = Append(calls, Call("FindOrganization", o))
          /\ \/ /\ Return(WrapRemote(RemoteError("FindOrganization")))
                /\ org_map' = EmptyMap
                /\ UNCHANGED <<oi, missing_orgs>>
             \/ LET found == o \in target.orgs
                    last == oi = Len(ad.Organizations)
                IN /\ oi' = oi + 1
                   /\ IF ~found
                      THEN /\ missing_orgs' = <<o>>
                           /\ Return(ErrOrgNotFound(<<o>>))
                           /\ org_map' = EmptyMap
                      ELSE /\ org_map' = (o :> OrgNode(o)) @@ org_map
                           /\ pc' = IF last THEN "tools" ELSE "orgs"
                           /\ UNCHANGED <<result, missing_orgs>>
    /\ UNCHANGED <<target, ad, opts, tool_map, runs, campaign_map, ci, pending, log,
                   backfillVars, campaignVars, grouperVars, parserVars, filterVars, saveVars>>

\* one iteration of the organization loop: dao.FindOrganization(o)
FindOrganization ==
    /\ pc = "orgs"
    /\ LET o == ad.Organizations[oi]
       IN /\ calls' = Append(calls, Call("FindOrganization", o))
          /\ \/ /\ Return(WrapRemote(RemoteError("FindOrganization")))
                /\ org_map' = EmptyMap
                /\ UNCHANGED <<oi, missing_orgs>>
             \/ LET found == o \in target.orgs
                    missing == IF found THEN missing_orgs ELSE Append(missing_orgs, o)
                    last == oi = Len(ad.Organizations)
                IN /\ missing_orgs' = missing
                   /\ oi' = oi + 1
                   /\ IF last /\ Len(missing) > 0
                      THEN /\ Return(ErrOrgNotFound(missing))
                           /\ org_map' = EmptyMap
                      ELSE /\ org_map' = IF found THEN (o :> OrgNode(o)) @@ org_map ELSE org_map
                           /\ pc' = IF last THEN "tools" ELSE "orgs"
                           /\ UNCHANGED result
    /\ UNCHANGED <<target, ad, opts, tool_map, runs, campaign_map, ci, pending, log,
                   backfillVars, campaignVars, grouperVars, parserVars, filterVars, saveVars>>

\* the tool map taken to be the whole registry of the target
MatchToolsWholeRegistry(toolsMap, registry) == registry

\* the tool map validateRestorePrerequisites builds from the registry
MatchTools(toolsMap, registry) ==
    [n \in {x \in DOMAIN toolsMap : x \in DOMAIN registry} |-> registry[n]]

\* mutant: no tool is ever reported missing
NoMissingTools(toolsMap, registry) == {}

\* the tools of the snapshot the registry lacks
MissingTools(toolsMap, registry) == {x \in DOMAIN toolsMap : x \notin DOMAIN registry}

\* the name override left out
OverrideNameSkipped(a, o) == a

\* mutant: the name is assigned without the test for an empty override
OverrideNameUnguarded(a, o) == [a EXCEPT !.Assessment.Name = o.AssessmentName]

\* the assessment name override (Step 4 of the doc comment)
OverrideName(a, o) ==
    IF o.AssessmentName # "" THEN [a EXCEPT !.Assessment.Name = o.AssessmentName] ELSE a

\* the index of the last campaign of cs called name, 0 when there is none
LastCampaignNamed(cs, name) ==
    IF \E k \in DOMAIN cs : cs[k].Name = name
    THEN CHOOSE k \in DOMAIN cs : cs[k].Name = name /\ \A j \in DOMAIN cs : cs[j].Name = name => j <= k
    ELSE 0

\* RestoreCampaign's loop over ad.Assessment.Campaigns: the index of the first
\* campaign called name (the loop breaks there), 0 when found stays false
FindCampaign(cs, name) ==
    IF \E k \in DOMAIN cs : cs[k].Name = name
    THEN CHOOSE k \in DOMAIN cs : cs[k].Name = name /\ \A j \in DOMAIN cs : cs[j].Name = name => k <= j
    ELSE 0

\* dao.GetAllDefenseTools and the tool match, the last step of
\* validateRestorePrerequisites; on success RestoreAssessment goes on to the
\* name override and RestoreCampaign to the selection of its campaign
GetAllDefenseTools ==
    /\ pc = "tools"
    /\ calls' = Append(calls, Call("GetAllDefenseTools", "db"))
    /\ \/ /\ Return(WrapRemote(RemoteError("GetAllDefenseTools")))
          /\ org_map' = EmptyMap
          /\ UNCHANGED <<tool_map, ad>>
       \/ IF MissingTools(ad.ToolsMap, target.tools) # {}
          THEN /\ Return(ErrMissingTools)
               /\ org_map' = EmptyMap
               /\ UNCHANGED <<tool_map, ad>>
          ELSE /\ tool_map' = MatchTools(ad.ToolsMap, target.tools)
               /\ IF entry = "RestoreCampaign"
                  THEN /\ IF FindCampaign(ad.Assessment.Campaigns, sourceCampaignName) = 0
                          THEN Return(ErrCampaignNotFound(ad.Assessment.Name, sourceCampaignName))
                          ELSE pc' = "target" /\ UNCHANGED result
                       /\ UNCHANGED <<ad, org_map>>
                  ELSE /\ ad' = OverrideName(ad, opts)
                       /\ pc' = "exists"
                       /\ UNCHANGED <<result, org_map>>
    /\ UNCHANGED <<target, opts, oi, missing_orgs, runs, campaign_map, ci, pending, log,
                   backfillVars, campaignVars, grouperVars, parserVars, filterVars, saveVars>>

----------------------------------------------------------------------------
(* RestoreAssessment: the existing-assessment check and Step 3, templates  *)

\* mutant: template resolution is left out
TemplateEntrySkipped(a, o) == "assess"

\* mutant: a named template assessment is looked up even in override mode
TemplateEntryLookupFirst(a, o) ==
    IF a.TemplateAssessment # "" THEN "libassess"
    ELSE IF DOMAIN a.LibraryTestCases # {} THEN "override" ELSE "assess"

\* where RestoreAssessment goes once the target name is known to be free
TemplateEntry(a, o) ==
    IF o.OverrideAssessmentTemplate
    THEN IF DOMAIN a.LibraryTestCases # {} THEN "override" ELSE "assess"
    ELSE IF a.TemplateAssessment # "" THEN "libassess"
    ELSE IF DOMAIN a.LibraryTestCases # {} THEN "libfetch" ELSE "assess"

\* dao.FindExistingAssessment and the already-exists check
FindExistingAssessment ==
    /\ pc = "exists"
    /\ calls' = Append(calls, Call("FindExistingAssessment", ad.Assessment.Name))
    /\ \/ Return(WrapRemote(RemoteError("FindExistingAssessment")))
       \/ IF ad.Assessment.Name \in target.assessments
          THEN Return(ErrAssessmentAlreadyExists(ad.Assessment.Name))
          ELSE pc' = TemplateEntry(ad, opts) /\ UNCHANGED result
    /\ UNCHANGED <<target, ad, opts, oi, missing_orgs, org_map, tool_map, runs, campaign_map,
                   ci, pending, log, backfillVars, campaignVars, grouperVars, parserVars, filterVars, saveVars>>

\* createTemplateData
createTemplateData(template_test_case) ==
    [LibraryTestCaseId |-> template_test_case.LibraryTestCaseId, Name |-> template_test_case.Name]

\* dao.CreateTestCaseTemplateInput for the library test cases ids of the snapshot
TemplateInput(a, ids) ==
    [Overwrite |-> TRUE,
     TestCaseTemplateData |-> {createTemplateData(a.LibraryTestCases[id]) : id \in ids}]

\* override mode: every library test case of the snapshot is written as a template
CreateTemplateTestCases ==
    /\ pc = "override"
    /\ calls' = Append(calls, Call("CreateTemplateTestCases",
                                   TemplateInput(ad, DOMAIN ad.LibraryTestCases)))
    /\ \/ /\ Return(WrapRemote(RemoteError("CreateTemplateTestCases")))
          /\ UNCHANGED target
       \/ /\ target' = [target EXCEPT !.templates = @ \cup DOMAIN ad.LibraryTestCases]
          /\ pc' = "assess"
          /\ UNCHANGED result
    /\ UNCHANGED <<ad, opts, oi, missing_orgs, org_map, tool_map, runs, campaign_map,
                   ci, pending, log, backfillVars, campaignVars, grouperVars, parserVars, filterVars, saveVars>>

\* the name prefix taken from the assessment metadata
MetadataPrefix(md) ==
    LET ps == {x \in BagToSet(md) : x.Key = "prefix"}
    IN IF ps = {} THEN "" ELSE (CHOOSE x \in ps : TRUE).Value \o " - "

LibraryAssessmentName(a) == MetadataPrefix(a.Assessment.Metadata) \o a.TemplateAssessment

\* dao.FindLibraryAssessment: a missing library assessment is only a warning
FindLibraryAssessment ==
    /\ pc = "libassess"
    /\ calls' = Append(calls, Call("FindLibraryAssessment", LibraryAssessmentName(ad)))
    /\ \/ Return(WrapRemote(RemoteError("FindLibraryAssessment")))
       \/ /\ pc' = IF DOMAIN ad.LibraryTestCases # {} THEN "libfetch" ELSE "assess"
          /\ UNCHANGED result
    /\ UNCHANGED <<target, ad, opts, oi, missing_orgs, org_map, tool_map, runs, campaign_map,
                   ci, pending, log, backfillVars, campaignVars, grouperVars, parserVars, filterVars, saveVars>>

\* strings.Join(ids, ", ")
RECURSIVE Join(_)
Join(ids) ==
    IF Len(ids) = 0 THEN <<>>
    ELSE IF Len(ids) = 1 THEN <<ids[1]>>
    ELSE <<ids[1]>> \o Separator \o Join(Tail(ids))

\* the error of the target for a batch fetch that names the ids it lacks
InvalidIdsError(ids) ==
    GqlList("GetLibraryTestCases", 1, "libraryTestcasesByIds",
            Ext(TRUE, TRUE, <<Str(LongPrefix \o Join(ids))>>))

\* other errors the batch fetch can return
OtherFetchErrors ==
    LET ok == Ext(TRUE, TRUE, <<Str(LongPrefix \o <<"L1">>)>>)
        one(s) == GqlList("GetLibraryTestCases", 1, "libraryTestcasesByIds", Ext(TRUE, TRUE, <<Str(s)>>))
    IN {RemoteError("GetLibraryTestCases"),
        GqlList("GetLibraryTestCases", 2, "libraryTestcasesByIds", ok),
        GqlList("GetLibraryTestCases", 1, "other", ok),
        GqlList("GetLibraryTestCases", 1, "libraryTestcasesByIds", NoExt),
        GqlList("GetLibraryTestCases", 1, "libraryTestcasesByIds", Ext(TRUE, FALSE, <<>>)),
        GqlList("GetLibraryTestCases", 1, "libraryTestcasesByIds",
                Ext(TRUE, TRUE, <<Str(LongPrefix \o <<"L1">>), Str(LongPrefix \o <<"L2">>)>>)),
        GqlList("GetLibraryTestCases", 1, "libraryTestcasesByIds", Ext(TRUE, TRUE, <<NonStr>>)),
        one(<<"x">>),
        one(<<"P", "x">>),
        one(LongPrefix),
        one(LongPrefix \o <<"x">>),
        one(LongPrefix \o <<"L1", ",", " ", "x">>)}

\* the errors the batch fetch of ids can return from the target
FetchErrors(ids, tgt) ==
    OtherFetchErrors
    \cup (IF ids \subseteq tgt.templates THEN {}
          ELSE {InvalidIdsError(ord) : ord \in Perms(ids \ tgt.templates)})

\* the classification of a batch fetch error in RestoreAssessment:
\* return an error, panic, or a list of missing ids
ClassifyFetchError(e) ==
    IF ~e.list
    THEN [outcome |-> "return", err |-> WrapRemote(e), ids |-> <<>>]
    ELSE IF ~(e.n = 1 /\ e.path = "libraryTestcasesByIds")
    THEN [outcome |-> "return", err |-> WrapRemote(e), ids |-> <<>>]
    ELSE IF ~e.ext.present
    THEN [outcome |-> "return", err |-> WrapRemote(e), ids |-> <<>>]
    ELSE IF ~(e.ext.islist /\ Len(e.ext.elems) = 1)
    THEN [outcome |-> "return", err |-> WrapRemote(e), ids |-> <<>>]
    ELSE IF ~e.ext.elems[1].isstr
    THEN [outcome |-> "panic", err |-> [err |-> "panic", info |-> e], ids |-> <<>>]
    ELSE IF ~HasPrefix(e.ext.elems[1].s, ShortPrefix)
    THEN [outcome |-> "return", err |-> WrapRemote(e), ids |-> <<>>]
    ELSE LET r == ParseLibraryTestcasesByIdsError(e.ext.elems[1].s)
         IN IF r.err # "nil"
            THEN [outcome |-> "return", err |-> WrapParse(r.err), ids |-> <<>>]
            ELSE [outcome |-> "missing", err |-> NoError, ids |-> r.ids]

\* "could not find all the ids in the instance, override templates to insert"
ErrMissingIds(n) == [err |-> "missing ids", info |-> <<n>>]

\* dao.GetLibraryTestCases for every library id of the snapshot
GetLibraryTestCases ==
    /\ pc = "libfetch"
    /\ calls' = Append(calls, Call("GetLibraryTestCases", DOMAIN ad.LibraryTestCases))
    /\ \/ /\ DOMAIN ad.LibraryTestCases \subseteq target.templates
          /\ pc' = "assess"
          /\ UNCHANGED result
       \/ \E e \in FetchErrors(DOMAIN ad.LibraryTestCases, target) :
             LET c == ClassifyFetchError(e)
             IN IF c.outcome = "missing"
                THEN Return(ErrMissingIds(Len(c.ids)))
                ELSE Return(c.err)
    /\ UNCHANGED <<target, ad, opts, oi, missing_orgs, org_map, tool_map, runs, campaign_map,
                   ci, pending, log, backfillVars, campaignVars, grouperVars, parserVars, filterVars, saveVars>>

----------------------------------------------------------------------------
(* RestoreAssessment, Step 4: the assessment container *)

\* the id the target assigns to the assessment it creates
AssessmentId(name) == "assessment-" \o name

\* dao.CreateAssessmentInput built from the snapshot (metadata already merged)
AssessmentInput(a, om) ==
    [Name |-> a.Assessment.Name,
     OrganizationIds |-> [k \in DOMAIN a.Organizations |-> OrgId(om, a.Organizations[k])],
     Metadata |-> a.Assessment.Metadata]

\* the provenance merge into the in-memory snapshot, then dao.CreateAssessment
CreateAssessment ==
    /\ pc = "assess"
    /\ ad' = [ad EXCEPT !.Assessment.Metadata = loadVatMetadata(@, ad.Metadata)]
    /\ calls' = Append(calls, Call("CreateAssessment", AssessmentInput(ad', org_map)))
    /\ \/ /\ Return(WrapRemote(RemoteError("CreateAssessment")))
          /\ UNCHANGED target
       \/ /\ target' = [target EXCEPT !.assessments = @ \cup {ad.Assessment.Name}]
          /\ pc' = "campaigns"
          /\ UNCHANGED result
    /\ UNCHANGED <<opts, oi, missing_orgs, org_map, tool_map, runs, campaign_map,
                   ci, pending, log, backfillVars, campaignVars, grouperVars, parserVars, filterVars, saveVars>>

----------------------------------------------------------------------------
(* restoreCampaigns, Steps 5 and 6 *)

\* the campaigns handed to restoreCampaigns: all of the snapshot's by
\* RestoreAssessment, the selected one by RestoreCampaign
campaignsToRestore ==
    IF entry = "RestoreCampaign"
    THEN LET k == FindCampaign(ad.Assessment.Campaigns, sourceCampaignName)
         IN IF k = 0 THEN <<>> ELSE <<ad.Assessment.Campaigns[k]>>
    ELSE ad.Assessment.Campaigns

\* mutant: the id is always the one derived from the snapshot's assessment
assessmentIdOfSnapshot == AssessmentId(ad.Assessment.Name)

\* the assessment id handed to restoreCampaigns: the one just created by
\* RestoreAssessment, the one of the existing target by RestoreCampaign
assessmentId ==
    IF entry = "RestoreCampaign" THEN AssessmentId(targetAssessmentName)
    ELSE AssessmentId(ad.Assessment.Name)

\* the id the target assigns to the k-th campaign it creates in this call
CampaignId(k) == "campaign-" \o ToString(k)

\* the created campaigns of the response, in request order
CreatedCampaigns(cs) == [k \in DOMAIN cs |-> [Name |-> cs[k].Name, Id |-> CampaignId(k)]]

\* campaign_map with the first id returned for a name kept
RECURSIVE BuildCampaignMapFirstWins(_)
BuildCampaignMapFirstWins(created) ==
    IF Len(created) = 0 THEN EmptyMap
    ELSE LET cdata == created[1]
         IN (cdata.Name :> cdata.Id) @@ BuildCampaignMapFirstWins(Tail(created))

\* campaign_map built from the response: a later entry replaces an earlier one
RECURSIVE BuildCampaignMap(_)
BuildCampaignMap(created) ==
    IF Len(created) = 0 THEN EmptyMap
    ELSE LET cdata == created[Len(created)]
         IN (cdata.Name :> cdata.Id) @@ BuildCampaignMap(SubSeq(created, 1, Len(created) - 1))

\* campaign_map[c.Name]
CampaignIdOf(cm, name) == IF name \in DOMAIN cm THEN cm[name] ELSE ""

\* dao.CreateCampaigns for all campaigns in one call
CreateCampaigns ==
    /\ pc = "campaigns"
    /\ calls' = Append(calls, Call("CreateCampaigns",
                   [AssessmentId |-> assessmentId,
                    CampaignData |-> [k \in DOMAIN campaignsToRestore |-> campaignsToRestore[k].Name]]))
    /\ \/ /\ Return(WrapRemote(RemoteError("CreateCampaigns")))
          /\ UNCHANGED <<campaign_map, ci>>
       \/ /\ campaign_map' = BuildCampaignMap(CreatedCampaigns(campaignsToRestore))
          /\ ci' = 1
          /\ pc' = "testcases"
          /\ UNCHANGED result
    /\ UNCHANGED <<target, ad, opts, oi, missing_orgs, org_map, tool_map, runs,
                   pending, log, backfillVars, campaignVars, grouperVars, parserVars, filterVars, saveVars>>

\* toolMap[idToolsMap[strconv.Itoa(result.DefenseToolId)].Name].Id, zero values for misses
DefenseToolId(tm, idToolsMap, id) ==
    LET name == IF id \in DOMAIN idToolsMap THEN idToolsMap[id].Name ELSE ""
    IN IF name \in DOMAIN tm THEN tm[name].Id ELSE ""

\* dao.CreateTestCaseDataInput of a serialized test case with a known status
TestCaseData(tc, tm, idToolsMap) ==
    [Name |-> tc.Name,
     Status |-> outcomeStatusMap[tc.Status],
     DefenseToolOutcomes |-> [k \in DOMAIN tc.DefenseToolOutcomes |->
                                 DefenseToolId(tm, idToolsMap, tc.DefenseToolOutcomes[k])]]

\* mutant: only the empty library id counts as no link
IsStandaloneEmptyOnly(tc) == tc.LibraryTestCaseId = ""

\* a test case with no library link goes to the no-template request
IsStandalone(tc) == tc.LibraryTestCaseId = "" \/ tc.LibraryTestCaseId = "null"

\* dao.CreateTestCaseDataWithLibraryIdInput
WithLibraryId(tc, tm, idToolsMap) ==
    [LibraryTestCaseId |-> tc.LibraryTestCaseId, CreateNewIfNotExists |-> FALSE,
     TestCaseData |-> TestCaseData(tc, tm, idToolsMap)]

\* tc_with_library after the test-case loop of a campaign
RECURSIVE GroupTestCases(_, _, _, _)
GroupTestCases(gr, tcs, tm, idToolsMap) ==
    IF Len(tcs) = 0 THEN gr
    ELSE GroupTestCases(IF IsStandalone(Head(tcs)) THEN gr
                        ELSE Add(gr, WithLibraryId(Head(tcs), tm, idToolsMap)),
                        Tail(tcs), tm, idToolsMap)

\* tc_no_template.TestCaseData after the test-case loop of a campaign
NoTemplateData(tcs, tm, idToolsMap) ==
    LET alone == SelectSeq(tcs, IsStandalone)
    IN [k \in DOMAIN alone |-> TestCaseData(alone[k], tm, idToolsMap)]

\* the first test case of the campaign whose status outcomeStatusMap lacks (0 for none)
FirstUnknownStatus(tcs) ==
    LET bad == {k \in DOMAIN tcs : tcs[k].Status \notin DOMAIN outcomeStatusMap}
    IN IF bad = {} THEN 0 ELSE CHOOSE k \in bad : \A j \in bad : k <= j

\* the error made to carry the test case name instead of the status
ErrOutcomeNotFoundByName(tc) == [err |-> "outcome not found", info |-> <<tc.Name>>]

\* fmt.Errorf("outcome %s not found", serialized_tc.Status)
ErrOutcomeNotFound(tc) == [err |-> "outcome not found", info |-> <<tc.Status>>]

\* the slog error record written before that return
OutcomeLogRecord(tc, c) ==
    [msg |-> "could not find outcome for this test case",
     outcome |-> tc.Status, testcase |-> tc.Name, campaign |-> c.Name]

\* mutant: the no-template request is sent before the batches
CampaignRequestsAloneFirst(c, cm, tm, idToolsMap, ords) ==
    LET base == [Db |-> "db", CampaignId |-> CampaignIdOf(cm, c.Name)]
        gr == GroupTestCases(NewGroupedCreateTestCaseWithLibraryIdInput(base), c.TestCases, tm, idToolsMap)
        batches == IF GrouperLen(gr) > 0 THEN GenerateInsertsData(gr, ords) ELSE <<>>
        alone == NoTemplateData(c.TestCases, tm, idToolsMap)
    IN (IF Len(alone) > 0
        THEN <<Call("CreateTestCasesNoTemplate",
                    [Db |-> "db", CampaignId |-> base.CampaignId, TestCaseData |-> alone])>>
        ELSE <<>>)
       \o [k \in DOMAIN batches |-> Call("CreateTestCasesByLibraryId", batches[k])]

\* the requests of one campaign, in the order they are sent
CampaignRequests(c, cm, tm, idToolsMap, ords) ==
    LET base == [Db |-> "db", CampaignId |-> CampaignIdOf(cm, c.Name)]
        gr == GroupTestCases(NewGroupedCreateTestCaseWithLibraryIdInput(base), c.TestCases, tm, idToolsMap)
        batches == IF GrouperLen(gr) > 0 THEN GenerateInsertsData(gr, ords) ELSE <<>>
        alone == NoTemplateData(c.TestCases, tm, idToolsMap)
    IN [k \in DOMAIN batches |-> Call("CreateTestCasesByLibraryId", batches[k])]
       \o (IF Len(alone) > 0
           THEN <<Call("CreateTestCasesNoTemplate",
                       [Db |-> "db", CampaignId |-> base.CampaignId, TestCaseData |-> alone])>>
           ELSE <<>>)

\* the grouper of campaign c, as the test-case loop leaves it
CampaignGrouper(c, cm, tm, idToolsMap) ==
    GroupTestCases(NewGroupedCreateTestCaseWithLibraryIdInput(
                       [Db |-> "db", CampaignId |-> CampaignIdOf(cm, c.Name)]),
                   c.TestCases, tm, idToolsMap)

\* mutant: every campaign's statuses are checked before the first campaign's
\* requests are built
BuildTestCasesCheckedUpFront ==
    /\ pc = "testcases"
    /\ IF ci > Len(campaignsToRestore)
       THEN /\ Return(NoError)
            /\ UNCHANGED <<ci, pending, log>>
       ELSE LET c == campaignsToRestore[ci]
                badc == {k \in ci..Len(campaignsToRestore) :
                            FirstUnknownStatus(campaignsToRestore[k].TestCases) # 0}
            IN IF badc # {}
               THEN LET b == campaignsToRestore[CHOOSE k \in badc : \A j \in badc : k <= j]
                    IN /\ log' = Append(log, OutcomeLogRecord(b.TestCases[FirstUnknownStatus(b.TestCases)], b))
                       /\ Return(ErrOutcomeNotFound(b.TestCases[FirstUnknownStatus(b.TestCases)]))
                       /\ UNCHANGED <<ci, pending>>
               ELSE \E ords \in IterationOrders(CampaignGrouper(c, campaign_map, tool_map, ad.IdToolsMap)) :
                       LET reqs == CampaignRequests(c, campaign_map, tool_map, ad.IdToolsMap, ords)
                       IN /\ pending' = reqs
                          /\ ci' = IF Len(reqs) = 0 THEN ci + 1 ELSE ci
                          /\ pc' = IF Len(reqs) = 0 THEN "testcases" ELSE "send"
                          /\ UNCHANGED <<result, log>>
    /\ UNCHANGED <<target, ad, opts, oi, missing_orgs, org_map, tool_map, runs, campaign_map,
                   calls, backfillVars, campaignVars, grouperVars, parserVars, filterVars, saveVars>>

\* the top of the campaign loop of Step 6: the status check and the requests
\* of campaign ci, or the return once every campaign is done
BuildTestCases ==
    /\ pc = "testcases"
    /\ IF ci > Len(campaignsToRestore)
       THEN /\ Return(NoError)
            /\ UNCHANGED <<ci, pending, log>>
       ELSE LET c == campaignsToRestore[ci]
                bad == FirstUnknownStatus(c.TestCases)
            IN IF bad # 0
               THEN /\ log' = Append(log, OutcomeLogRecord(c.TestCases[bad], c))
                    /\ Return(ErrOutcomeNotFound(c.TestCases[bad]))
                    /\ UNCHANGED <<ci, pending>>
               ELSE \E ords \in IterationOrders(CampaignGrouper(c, campaign_map, tool_map, ad.IdToolsMap)) :
                       LET reqs == CampaignRequests(c, campaign_map, tool_map, ad.IdToolsMap, ords)
                       IN /\ pending' = reqs
                          /\ ci' = IF Len(reqs) = 0 THEN ci + 1 ELSE ci
                          /\ pc' = IF Len(reqs) = 0 THEN "testcases" ELSE "send"
                          /\ UNCHANGED <<result, log>>
    /\ UNCHANGED <<target, ad, opts, oi, missing_orgs, org_map, tool_map, runs, campaign_map,
                   calls, backfillVars, campaignVars, grouperVars, parserVars, filterVars, saveVars>>

\* dao.CreateTestCasesByLibraryId or dao.CreateTestCasesNoTemplate: the next request
CreateTestCases ==
    /\ pc = "send"
    /\ calls' = Append(calls, Head(pending))
    /\ \/ /\ Return(WrapRemote(RemoteError(Head(pending).op)))
          /\ UNCHANGED <<pending, ci>>
       \/ /\ pending' = Tail(pending)
          /\ ci' = IF Len(pending) = 1 THEN ci + 1 ELSE ci
          /\ pc' = IF Len(pending) = 1 THEN "testcases" ELSE "send"
          /\ UNCHANGED result
    /\ UNCHANGED <<target, ad, opts, oi, missing_orgs, org_map, tool_map, runs, campaign_map,
                   log, backfillVars, campaignVars, grouperVars, parserVars, filterVars, saveVars>>

----------------------------------------------------------------------------
(* RestoreCampaign: one campaign of the snapshot into an existing assessment *)

\* the --campaign-name and --target-assessment-name values the caller passes
SourceCampaignNames == {"c1", "c2"}
TargetAssessmentNames == {"B"}

\* entry of RestoreCampaign(ctx, client, db, ad, source, tgt): validation begins;
\* no load-side stamp is set
EnterCampaign(source, tgt) ==
    /\ runs < MaxRuns
    /\ runs' = runs + 1
    /\ entry' = "RestoreCampaign"
    /\ sourceCampaignName' = source
    /\ targetAssessmentName' = tgt
    /\ calls' = <<>>
    /\ log' = <<>>
    /\ result' = Running
    /\ oi' = 1
    /\ missing_orgs' = <<>>
    /\ org_map' = EmptyMap
    /\ tool_map' = EmptyMap
    /\ campaign_map' = EmptyMap
    /\ ci' = 1
    /\ pending' = <<>>
    /\ pc' = IF Len(ad.Organizations) = 0 THEN "tools" ELSE "orgs"
    /\ UNCHANGED <<target, ad, opts, backfillVars, grouperVars, parserVars, filterVars, saveVars>>

\* the caller invokes RestoreCampaign on the snapshot it loaded
RestoreCampaign ==
    /\ pc = "idle"
    /\ \E source \in SourceCampaignNames, tgt \in TargetAssessmentNames : EnterCampaign(source, tgt)

\* dao.FindExistingAssessment for targetAssessmentName, then restoreCampaigns
FindTargetAssessment ==
    /\ pc = "target"
    /\ calls' = Append(calls, Call("FindExistingAssessment", targetAssessmentName))
    /\ \/ Return(WrapRemote(RemoteError("FindExistingAssessment")))
       \/ IF targetAssessmentName \in target.assessments
          THEN pc' = "campaigns" /\ UNCHANGED result
          ELSE Return(ErrTargetAssessmentNotFound(targetAssessmentName))
    /\ UNCHANGED <<target, ad, opts, oi, missing_orgs, org_map, tool_map, runs, campaign_map,
                   ci, pending, log, backfillVars, campaignVars, grouperVars, parserVars, filterVars, saveVars>>

----------------------------------------------------------------------------
(* RestoreAssessment of restore.go, the edition that backfills missing     *)
(* templates.  Its validation steps are the ones above; it stamps the      *)
(* load-side metadata only before it creates the assessment, links test    *)
(* cases by template name and sends them in one request per campaign.      *)

\* entry of RestoreAssessment (restore.go)
BackfillRestoreAssessment ==
    /\ pc = "idle"
    /\ runs < MaxRuns
    /\ runs' = runs + 1
    /\ calls' = <<>>
    /\ log' = <<>>
    /\ result' = Running
    /\ oi' = 1
    /\ missing_orgs' = <<>>
    /\ org_map' = EmptyMap
    /\ tool_map' = EmptyMap
    /\ campaign_map' = EmptyMap
    /\ ci' = 1
    /\ pending' = <<>>
    /\ library_assessment_found' = FALSE
    /\ template_input' = {}
    /\ instance_library_test_case' = EmptyMap
    /\ pc' = IF Len(ad.Organizations) = 0 THEN "tools" ELSE "orgs"
    /\ entry' = "RestoreAssessment"
    /\ UNCHANGED <<target, ad, opts, sourceCampaignName, targetAssessmentName,
                   grouperVars, parserVars, filterVars, saveVars>>

\* where restore.go goes once the target name is known to be free
BackfillTemplateEntry(a, o) ==
    IF o.OverrideAssessmentTemplate = FALSE /\ a.TemplateAssessment # ""
    THEN "libassess"
    ELSE IF DOMAIN a.LibraryTestCases # {} THEN "override" ELSE "assess"

\* dao.FindExistingAssessment and the already-exists check (restore.go)
BackfillFindExistingAssessment ==
    /\ pc = "exists"
    /\ calls' = Append(calls, Call("FindExistingAssessment", ad.Assessment.Name))
    /\ \/ Return(WrapRemote(RemoteError("FindExistingAssessment")))
       \/ IF ad.Assessment.Name \in target.assessments
          THEN Return(ErrAssessmentAlreadyExists(ad.Assessment.Name))
          ELSE pc' = BackfillTemplateEntry(ad, opts) /\ UNCHANGED result
    /\ UNCHANGED <<target, ad, opts, oi, missing_orgs, org_map, tool_map, runs, campaign_map,
                   ci, pending, log, backfillVars, campaignVars, grouperVars, parserVars, filterVars, saveVars>>

\* the else branch of Step 3: every library test case is written as a template
BackfillCreateAllTemplates ==
    /\ pc = "override"
    /\ calls' = Append(calls, Call("CreateTemplateTestCases",
                                   TemplateInput(ad, DOMAIN ad.LibraryTestCases)))
    /\ template_input' = DOMAIN ad.LibraryTestCases
    /\ instance_library_test_case' = ad.LibraryTestCases
    /\ \/ /\ Return(WrapRemote(RemoteError("CreateTemplateTestCases")))
          /\ UNCHANGED target
       \/ /\ target' = [target EXCEPT !.templates = @ \cup DOMAIN ad.LibraryTestCases]
          /\ pc' = "assess"
          /\ UNCHANGED result
    /\ UNCHANGED <<ad, opts, oi, missing_orgs, org_map, tool_map, runs, campaign_map,
                   ci, pending, log, library_assessment_found, campaignVars, grouperVars, parserVars, filterVars, saveVars>>

ErrMissingLibraryAssessment(name) == [err |-> "ErrMissingLibraryAssessment", info |-> <<name>>]

\* "could not process data, fatal error"
ErrFatal == [err |-> "fatal error", info |-> <<>>]

\* the end of the template branch of restore.go: with the library assessment
\* absent, missing templates are an error; otherwise they are created
AfterLibraryFetch(found, input) ==
    IF ~found /\ input # {} THEN "missing library assessment"
    ELSE IF input # {} THEN "backfill"
    ELSE "assess"

\* dao.FindLibraryAssessment (restore.go)
BackfillFindLibraryAssessment ==
    /\ pc = "libassess"
    /\ calls' = Append(calls, Call("FindLibraryAssessment", LibraryAssessmentName(ad)))
    /\ \/ /\ Return(WrapRemote(RemoteError("FindLibraryAssessment")))
          /\ UNCHANGED library_assessment_found
       \/ /\ library_assessment_found' = (LibraryAssessmentName(ad) \in target.libAssessments)
          /\ pc' = IF DOMAIN ad.LibraryTestCases # {} THEN "libfetch" ELSE "assess"
          /\ UNCHANGED result
    /\ UNCHANGED <<target, ad, opts, oi, missing_orgs, org_map, tool_map, runs, campaign_map,
                   ci, pending, log, template_input, instance_library_test_case,
                   campaignVars, grouperVars, parserVars, filterVars, saveVars>>

\* the library test cases of the target for the ids, as the fetch returns them
FetchedNodes(ids) == [id \in ids |-> LibraryTestCase(id)]

\* the ids of the snapshot restore.go fetches again after it has noted the missing ones
IdsToFetch(a, inst) == {id \in DOMAIN a.LibraryTestCases : id \notin DOMAIN inst}

\* the first dao.GetLibraryTestCases of restore.go and what it does with the answer
BackfillGetLibraryTestCases ==
    /\ pc = "libfetch"
    /\ calls' = Append(calls, Call("GetLibraryTestCases", DOMAIN ad.LibraryTestCases))
    /\ \/ /\ DOMAIN ad.LibraryTestCases \subseteq target.templates
          /\ instance_library_test_case' = FetchedNodes(DOMAIN ad.LibraryTestCases)
          /\ pc' = AfterLibraryFetch(library_assessment_found, {})
          /\ UNCHANGED <<result, template_input>>
       \/ \E e \in FetchErrors(DOMAIN ad.LibraryTestCases, target) :
             LET c == ClassifyFetchError(e)
                 missing_ids == Range(c.ids)
                 inst == [id \in missing_ids |-> ad.LibraryTestCases[id]]
             IN IF c.outcome # "missing"
                THEN Return(c.err) /\ UNCHANGED <<template_input, instance_library_test_case>>
                ELSE /\ template_input' = missing_ids
                     /\ instance_library_test_case' = inst
                     /\ IF IdsToFetch(ad, inst) # {}
                        THEN pc' = "refetch" /\ UNCHANGED result
                        ELSE Return(ErrFatal)
    /\ UNCHANGED <<target, ad, opts, oi, missing_orgs, org_map, tool_map, runs, campaign_map,
                   ci, pending, log, library_assessment_found, campaignVars, grouperVars, parserVars, filterVars, saveVars>>

\* the second dao.GetLibraryTestCases, for the ids that were not reported missing
BackfillFetchAgain ==
    /\ pc = "refetch"
    /\ LET ids == IdsToFetch(ad, instance_library_test_case)
       IN /\ calls' = Append(calls, Call("GetLibraryTestCases", ids))
          /\ \/ /\ \E e \in FetchErrors(ids, target) : Return(WrapRemote(e))
                /\ UNCHANGED instance_library_test_case
             \/ /\ ids \subseteq target.templates
                /\ instance_library_test_case' = FetchedNodes(ids) @@ instance_library_test_case
                /\ IF AfterLibraryFetch(library_assessment_found, template_input) = "missing library assessment"
                   THEN Return(ErrMissingLibraryAssessment(ad.TemplateAssessment))
                   ELSE pc' = AfterLibraryFetch(library_assessment_found, template_input)
                        /\ UNCHANGED result
    /\ UNCHANGED <<target, ad, opts, oi, missing_orgs, org_map, tool_map, runs, campaign_map,
                   ci, pending, log, library_assessment_found, template_input,
                   campaignVars, grouperVars, parserVars, filterVars, saveVars>>

\* dao.CreateTemplateTestCases for the templates that were missing
BackfillCreateMissingTemplates ==
    /\ pc = "backfill"
    /\ calls' = Append(calls, Call("CreateTemplateTestCases", TemplateInput(ad, template_input)))
    /\ \/ /\ Return(WrapRemote(RemoteError("CreateTemplateTestCases")))
          /\ UNCHANGED target
       \/ /\ target' = [target EXCEPT !.templates = @ \cup template_input]
          /\ pc' = "assess"
          /\ UNCHANGED result
    /\ UNCHANGED <<ad, opts, oi, missing_orgs, org_map, tool_map, runs, campaign_map,
                   ci, pending, log, backfillVars, campaignVars, grouperVars, parserVars, filterVars, saveVars>>

\* the load-side stamp, the provenance merge, then dao.CreateAssessment (restore.go)
BackfillCreateAssessment ==
    /\ pc = "assess"
    /\ LET stamped == [ad EXCEPT !.Metadata.LoadData = NewVatOpMetadata(runs)]
       IN ad' = [stamped EXCEPT !.Assessment.Metadata = loadVatMetadata(@, stamped.Metadata)]
    /\ calls' = Append(calls, Call("CreateAssessment", AssessmentInput(ad', org_map)))
    /\ \/ /\ Return(WrapRemote(RemoteError("CreateAssessment")))
          /\ UNCHANGED target
       \/ /\ target' = [target EXCEPT !.assessments = @ \cup {ad.Assessment.Name}]
          /\ pc' = "campaigns"
          /\ UNCHANGED result
    /\ UNCHANGED <<opts, oi, missing_orgs, org_map, tool_map, runs, campaign_map,
                   ci, pending, log, backfillVars, campaignVars, grouperVars, parserVars, filterVars, saveVars>>

\* instance_library_test_case[id].Name, the zero value when the id has no entry
TemplateName(inst, id) == IF id \in DOMAIN inst THEN inst[id].Name ELSE ""

\* the requests of one campaign in restore.go: the template-linked test cases
\* in one request, then the standalone ones
BackfillCampaignRequests(c, cm, tm, idToolsMap, inst) ==
    LET linked == SelectSeq(c.TestCases, LAMBDA tc : ~IsStandalone(tc))
        withName == [k \in DOMAIN linked |->
                        [TemplateName |-> TemplateName(inst, linked[k].LibraryTestCaseId),
                         TestCaseData |-> TestCaseData(linked[k], tm, idToolsMap)]]
        alone == NoTemplateData(c.TestCases, tm, idToolsMap)
        cid == CampaignIdOf(cm, c.Name)
    IN (IF Len(withName) > 0
        THEN <<Call("CreateTestCases", [Db |-> "db", CampaignId |-> cid, CreateTestCaseInputs |-> withName])>>
        ELSE <<>>)
       \o (IF Len(alone) > 0
           THEN <<Call("CreateTestCasesNoTemplate", [Db |-> "db", CampaignId |-> cid, TestCaseData |-> alone])>>
           ELSE <<>>)

\* the top of the campaign loop of Step 6 in restore.go
BackfillBuildTestCases ==
    /\ pc = "testcases"
    /\ IF ci > Len(campaignsToRestore)
       THEN /\ Return(NoError)
            /\ UNCHANGED <<ci, pending, log>>
       ELSE LET c == campaignsToRestore[ci]
                bad == FirstUnknownStatus(c.TestCases)
                reqs == BackfillCampaignRequests(c, campaign_map, tool_map, ad.IdToolsMap,
                                                 instance_library_test_case)
            IN IF bad # 0
               THEN /\ log' = Append(log, OutcomeLogRecord(c.TestCases[bad], c))
                    /\ Return(ErrOutcomeNotFound(c.TestCases[bad]))
                    /\ UNCHANGED <<ci, pending>>
               ELSE /\ pending' = reqs
                    /\ ci' = IF Len(reqs) = 0 THEN ci + 1 ELSE ci
                    /\ pc' = IF Len(reqs) = 0 THEN "testcases" ELSE "send"
                    /\ UNCHANGED <<result, log>>
    /\ UNCHANGED <<target, ad, opts, oi, missing_orgs, org_map, tool_map, runs, campaign_map,
                   calls, backfillVars, campaignVars, grouperVars, parserVars, filterVars, saveVars>>

----------------------------------------------------------------------------
(* The grouper on its own: any sequence of Add calls, then GenerateInsertsData *)

GrouperIds == {"L1", "L2", "L3"}

NotGenerated == [called |-> FALSE, batches |-> <<>>]

\* g.Add(tcd) for the next test case, linked to the library id id
GrouperAdd ==
    /\ pc = "grouper"
    /\ Len(added) < MaxAdds
    /\ \E id \in GrouperIds :
          LET tcd == [LibraryTestCaseId |-> id, CreateNewIfNotExists |-> FALSE,
                      TestCaseData |-> [Name |-> "tc" \o ToString(Len(added) + 1)]]
          IN /\ g' = Add(g, tcd)
             /\ added' = Append(added, tcd)
    /\ inserts' = NotGenerated
    /\ UNCHANGED <<restoreVars, parserVars, filterVars, saveVars>>

\* g.GenerateInsertsData()
GrouperGenerate ==
    /\ pc = "grouper"
    /\ \E ords \in IterationOrders(g) :
          inserts' = [called |-> TRUE, batches |-> GenerateInsertsData(g, ords)]
    /\ UNCHANGED <<g, added, restoreVars, parserVars, filterVars, saveVars>>

----------------------------------------------------------------------------
(* The parser on its own *)

BodyTokens == {"L1", "L2", "x", ",", " "}
Heads == {<<>>, ShortPrefix, <<"P", ":">>, LongPrefix, <<"x">> \o LongPrefix}
ParserInputs == {h \o b : h \in Heads, b \in SeqsUpTo(BodyTokens, MaxBody)}

NotParsed == [ids |-> <<>>, err |-> "not called"]

\* ParseLibraryTestcasesByIdsError(pin)
Parse ==
    /\ pc = "parser"
    /\ pout' = ParseLibraryTestcasesByIdsError(pin)
    /\ pc' = "parsed"
    /\ UNCHANGED <<target, ad, opts, oi, missing_orgs, org_map, tool_map, calls, result, runs,
                   campaign_map, ci, pending, log, backfillVars, pin, campaignVars, grouperVars, filterVars, saveVars>>

----------------------------------------------------------------------------
(* internal/util: the dump filter *)

\* the records csv.ReadAll can return for a filter file: environment and
\* assessment fields, and a record with a single field
FilterDbs == {"*", "env1", "env3"}
FilterAssessments == {"*", "assessment1", "assessment3"}
FilterRecords == {<<db, a>> : db \in FilterDbs, a \in FilterAssessments} \cup {<<"env1">>}

\* the environments and assessments the dump asks about
QueryDbs == {"env1", "env2", "env3"}
QueryAssessments == {"assessment1", "assessment3", "assessment4"}

NotChecked == [called |-> FALSE, db |-> "", assessment |-> "", result |-> FALSE]

\* the loop of NewFilter over the records: records with fewer than two
\* fields are skipped, dbAssessmentMap[db][assessment] = true for the others
RECURSIVE BuildFilter(_, _)
BuildFilter(m, records) ==
    IF Len(records) = 0 THEN m
    ELSE LET record == Head(records)
         IN IF Len(record) < 2 THEN BuildFilter(m, Tail(records))
            ELSE LET db == record[1]
                     assessment == record[2]
                     old == IF db \in DOMAIN m THEN m[db] ELSE {}
                 IN BuildFilter((db :> (old \cup {assessment})) @@ m, Tail(records))

\* f.databaseAssessmentPairs[db] != nil
HasDb(m, db) == db \in DOMAIN m

\* f.databaseAssessmentPairs[db][assessment], false for a nil inner map
HasPair(m, db, assessment) == db \in DOMAIN m /\ assessment \in m[db]

\* (*Filter).CheckDb
CheckDb(m, db) == HasDb(m, "*") \/ HasDb(m, db)

\* (*Filter).CheckAssessment
CheckAssessment(m, db, assessment) ==
    IF HasDb(m, "*") /\ HasPair(m, "*", "*") THEN TRUE
    ELSE IF CheckDb(m, "*") THEN \E d \in DOMAIN m : assessment \in m[d]
    ELSE HasDb(m, db) /\ (HasPair(m, db, "*") \/ HasPair(m, db, assessment))

\* util.NewFilter(r) on a filter file of at most MaxRecords records
NewFilter ==
    /\ pc = "filter"
    /\ \E records \in SeqsUpTo(FilterRecords, MaxRecords) :
          databaseAssessmentPairs' = BuildFilter(EmptyMap, records)
    /\ pc' = "filtered"
    /\ UNCHANGED <<target, ad, opts, oi, missing_orgs, org_map, tool_map, calls, result, runs,
                   campaign_map, ci, pending, log, backfillVars, campaignVars, grouperVars,
                   parserVars, checked, saveVars>>

\* filter.CheckAssessment(db, assessment) during a dump
FilterCheckAssessment ==
    /\ pc = "filtered"
    /\ \E db \in QueryDbs, assessment \in QueryAssessments :
          checked' = [called |-> TRUE, db |-> db, assessment |-> assessment,
                      result |-> CheckAssessment(databaseAssessmentPairs, db, assessment)]
    /\ UNCHANGED <<restoreVars, grouperVars, parserVars, databaseAssessmentPairs, saveVars>>

----------------------------------------------------------------------------
(* SaveAssessmentData and saveAssessment (the save side) *)

\* the assessment_name argument
SaveName == "A"

\* a nil *AssessmentData
NoData == [nil |-> TRUE]

ErrNoAssessmentsFound == [err |-> "ErrNoAssessmentsFound", info |-> <<>>]
\* the sentinel wrapped with the name searched for
ErrTooManyAssessmentsFound(name) == [err |-> "ErrTooManyAssessmentsFound", info |-> name]
\* fmt.Errorf("error searching %s, %w", assessment_name, err) with err == nil:
\* an error that wraps nothing
ErrSearching(name) == [err |-> "error searching", info |-> name]

\* data.TemplateAssessment: the value of the first "bundle" metadata pair
BundleOf(md) ==
    LET bs == {x \in BagToSet(md) : x.Key = "bundle"}
    IN IF bs = {} THEN "" ELSE (CHOOSE x \in bs : TRUE).Value

\* the library ids the test cases of the assessment link to
ReferencedLibraryIds(assessment) ==
    {tc.LibraryTestCaseId :
        tc \in {x \in UNION {Range(c.TestCases) : c \in Range(assessment.Campaigns)} : ~IsStandalone(x)}}

\* the defense tool ids the tool outcomes of the assessment carry
OutcomeToolIds(assessment) ==
    UNION {Range(tc.DefenseToolOutcomes) :
        tc \in UNION {Range(c.TestCases) : c \in Range(assessment.Campaigns)}}

\* dao.GetAllAssessments and the count checks, then the first part of
\* saveAssessment up to the library ids
SaveAssessmentData ==
    /\ pc = "save"
    /\ calls' = Append(calls, Call("GetAllAssessments", SaveName))
    /\ \/ Return(WrapRemote(RemoteError("GetAllAssessments"))) /\ data' = NoData
       \/ IF Len(nodes) = 0 THEN Return(ErrNoAssessmentsFound) /\ data' = NoData
          ELSE IF Len(nodes) > 1 THEN Return(ErrSearching(SaveName)) /\ data' = NoData
          ELSE /\ data' = [nil |-> FALSE,
                           Assessment |-> nodes[1],
                           TemplateAssessment |-> BundleOf(nodes[1].Metadata),
                           LibraryTestCases |-> [id \in ReferencedLibraryIds(nodes[1]) |-> <<>>],
                           ToolsMap |-> EmptyMap,
                           IdToolsMap |-> EmptyMap,
                           Organizations |-> <<>>,
                           Metadata |-> [SaveData |-> NewVatOpMetadata(1), LoadData |-> NilStamp]]
               /\ pc' = IF ReferencedLibraryIds(nodes[1]) # {} THEN "savelib" ELSE "savetools"
               /\ UNCHANGED result
    /\ UNCHANGED <<target, ad, opts, oi, missing_orgs, org_map, tool_map, runs, campaign_map,
                   ci, pending, log, backfillVars, campaignVars, grouperVars, parserVars,
                   filterVars, nodes>>

\* saveAssessment: dao.GetLibraryTestCases for the referenced library ids
SaveGetLibraryTestCases ==
    /\ pc = "savelib"
    /\ calls' = Append(calls, Call("GetLibraryTestCases", DOMAIN data.LibraryTestCases))
    /\ \/ Return(WrapRemote(RemoteError("GetLibraryTestCases"))) /\ data' = NoData
       \/ IF DOMAIN data.LibraryTestCases \subseteq target.templates
          THEN /\ data' = [data EXCEPT !.LibraryTestCases =
                                 [id \in DOMAIN data.LibraryTestCases |-> LibraryTestCase(id)]]
               /\ pc' = "savetools"
               /\ UNCHANGED result
          ELSE /\ Return(WrapRemote(InvalidIdsError(
                         CHOOSE q \in Perms(DOMAIN data.LibraryTestCases \ target.templates) : TRUE)))
               /\ data' = NoData
    /\ UNCHANGED <<target, ad, opts, oi, missing_orgs, org_map, tool_map, runs, campaign_map,
                   ci, pending, log, backfillVars, campaignVars, grouperVars, parserVars,
                   filterVars, nodes>>

\* saveAssessment: dao.GetAllDefenseTools, the tool maps built from the tool
\* outcomes (the test cases of the model list no BlueTools), the list of
\* organizations in map order, and the return
SaveGetAllDefenseTools ==
    /\ pc = "savetools"
    /\ calls' = Append(calls, Call("GetAllDefenseTools", "db"))
    /\ \/ Return(WrapRemote(RemoteError("GetAllDefenseTools"))) /\ data' = NoData
       \/ LET used == {n \in DOMAIN target.tools : target.tools[n].Id \in OutcomeToolIds(data.Assessment)}
          IN \E orgs \in Perms(data.Assessment.Organizations) :
                /\ data' = [data EXCEPT !.ToolsMap = [n \in used |-> target.tools[n]],
                                        !.IdToolsMap = [id \in {target.tools[n].Id : n \in used} |->
                                                          CHOOSE t \in Range(target.tools) : t.Id = id],
                                        !.Organizations = orgs]
                /\ Return(NoError)
    /\ UNCHANGED <<target, ad, opts, oi, missing_orgs, org_map, tool_map, runs, campaign_map,
                   ci, pending, log, backfillVars, campaignVars, grouperVars, parserVars,
                   filterVars, nodes>>

----------------------------------------------------------------------------
(* Initial states *)

AllOptions == {Options(name, override) : name \in {"", "B"}, override \in BOOLEAN}

TestCaseKinds ==
    {[Status |-> st, Lib |-> "L1", Outcomes |-> <<>>] :
        st \in CanonicalStatuses \cup {"Abandoned", "Not Performed", "Blocked"}}
    \cup {[Status |-> TestCaseStatusCompleted, Lib |-> l, Outcomes |-> <<>>] : l \in {"", "null", "L1", "L2"}}
    \cup {[Status |-> "Abandoned", Lib |-> "", Outcomes |-> <<"S-t1">>],
          [Status |-> "Blocked", Lib |-> "null", Outcomes |-> <<>>]}

\* the campaign named name with test cases of the kinds ks, named by position
CampaignOf(name, ks) ==
    Campaign(name, [k \in DOMAIN ks |->
                       TestCase(name \o "-tc" \o ToString(k), ks[k].Status, ks[k].Lib, ks[k].Outcomes)])

CampaignLists ==
    {<<CampaignOf("c1", ks)>> : ks \in SeqsUpTo(TestCaseKinds, MaxTestCases)}
    \cup {<<CampaignOf("c1", k1), CampaignOf(n2, k2)>> :
             n2 \in {"c1", "c2"}, k1 \in SeqsUpTo(TestCaseKinds, 1), k2 \in SeqsUpTo(TestCaseKinds, 1)}

\* the campaigns of the assessments of the source database
SaveCampaignLists ==
    {<<CampaignOf("c1", ks)>> : ks \in SeqsUpTo(TestCaseKinds, 1)}
    \cup {<<CampaignOf("c1", k1), CampaignOf("c2", k2)>> :
             k1 \in SeqsUpTo(TestCaseKinds, 1), k2 \in SeqsUpTo(TestCaseKinds, 1)}

SimpleCampaigns ==
    <<CampaignOf("c1", <<[Status |-> TestCaseStatusCompleted, Lib |-> "L1", Outcomes |-> <<>>],
                         [Status |-> "Abandoned", Lib |-> "", Outcomes |-> <<"S-t1">>]>>)>>

Scenario(a, o, t) == [ad |-> a, opts |-> o, target |-> t]

\* snapshots that differ in what validation reads
ValidationScenarios ==
    {Scenario(Snapshot(orgs, tools, "", {}, <<>>), Options("", FALSE), Target(as, {}, {})) :
        orgs \in SeqsUpTo(OrgNames, MaxOrgs), tools \in SUBSET {"t1", "t3"}, as \in {{}, {"A"}}}

\* snapshots and targets that differ in what the name check and the template
\* resolution read
ResolutionScenarios ==
    {Scenario(Snapshot(<<"o1">>, {"t1"}, tmpl, libs, SimpleCampaigns), o, Target(as, las, ts)) :
        tmpl \in {"", "T"}, libs \in SUBSET Uuids, o \in AllOptions,
        as \in {{}, {"A"}, {"B"}}, las \in {{}, {"px - T"}}, ts \in SUBSET Uuids}

\* snapshots that differ in their campaigns and test cases
CampaignScenarios ==
    {Scenario(Snapshot(<<"o1">>, {"t1"}, "", Uuids, camps), Options("", FALSE), Target({}, {}, Uuids)) :
        camps \in CampaignLists}

\* a name override that is blank
BlankNameScenarios ==
    {Scenario(Snapshot(<<"o1">>, {"t1"}, "", {}, SimpleCampaigns), Options(" ", FALSE), Target(as, {}, {})) :
        as \in {{}, {"A"}}}

\* a snapshot with a tool outcome whose tool id IdToolsMap does not hold
UnresolvedToolScenarios ==
    {Scenario(Snapshot(<<"o1">>, {"t1"}, "", Uuids,
                       <<CampaignOf("c1", <<[Status |-> TestCaseStatusCompleted, Lib |-> lib,
                                             Outcomes |-> <<"S-t1", "S-t9">>]>>)>>),
              Options("", FALSE), Target({}, {}, Uuids)) : lib \in {"", "L1"}}

\* a snapshot saved from an assessment that an earlier restore created: its
\* assessment metadata already holds provenance pairs
StampedScenarios ==
    {Scenario([Snapshot(<<"o1">>, {"t1"}, "", {}, SimpleCampaigns)
                  EXCEPT !.Assessment.Metadata =
                             @ (+) SetToBag({[Key |-> "vat-load-date", Value |-> "d0"],
                                             [Key |-> "vat-save-date", Value |-> "d0"]})],
              Options("", FALSE), Target({}, {}, {}))}

Scenarios ==
    ValidationScenarios \cup ResolutionScenarios \cup CampaignScenarios \cup BlankNameScenarios
    \cup UnresolvedToolScenarios \cup StampedScenarios

\* the same snapshots against a target that already holds the assessment B
TransferScenarios ==
    {Scenario(Snapshot(<<"o1">>, {"t1"}, "", Uuids, camps), Options("", FALSE), Target({"B"}, {}, Uuids)) :
        camps \in CampaignLists}

Idle ==
    /\ oi = 1
    /\ missing_orgs = <<>>
    /\ org_map = EmptyMap
    /\ tool_map = EmptyMap
    /\ calls = <<>>
    /\ result = Running
    /\ runs = 0
    /\ campaign_map = EmptyMap
    /\ ci = 1
    /\ pending = <<>>
    /\ log = <<>>
    /\ library_assessment_found = FALSE
    /\ template_input = {}
    /\ instance_library_test_case = EmptyMap
    /\ entry = "none"
    /\ sourceCampaignName = ""
    /\ targetAssessmentName = ""
    /\ databaseAssessmentPairs = EmptyMap
    /\ checked = NotChecked
    /\ data = NoData

Init ==
    /\ \E sc \in Scenarios : ad = sc.ad /\ opts = sc.opts /\ target = sc.target
    /\ pc = "idle"
    /\ Idle
    /\ nodes = <<>>
    /\ g = NewGroupedCreateTestCaseWithLibraryIdInput([Db |-> "db", CampaignId |-> "campaign-1"])
    /\ added = <<>>
    /\ inserts = NotGenerated
    /\ pin = <<>>
    /\ pout = NotParsed

Next ==
    \/ RestoreAssessment
    \/ RestoreAgain
    \/ FindOrganization
    \/ GetAllDefenseTools
    \/ FindExistingAssessment
    \/ CreateTemplateTestCases
    \/ FindLibraryAssessment
    \/ GetLibraryTestCases
    \/ CreateAssessment
    \/ CreateCampaigns
    \/ BuildTestCases
    \/ CreateTestCases

Spec == Init /\ [][Next]_vars

NextTransfer ==
    \/ Next
    \/ RestoreCampaign
    \/ FindTargetAssessment

InitTransfer ==
    /\ \E sc \in Scenarios \cup TransferScenarios : ad = sc.ad /\ opts = sc.opts /\ target = sc.target
    /\ pc = "idle"
    /\ Idle
    /\ nodes = <<>>
    /\ g = NewGroupedCreateTestCaseWithLibraryIdInput([Db |-> "db", CampaignId |-> "campaign-1"])
    /\ added = <<>>
    /\ inserts = NotGenerated
    /\ pin = <<>>
    /\ pout = NotParsed

\* both entry points of the package, as cmd/transfer.go offers them
SpecTransfer == InitTransfer /\ [][NextTransfer]_vars

\* the fixed snapshot the grouper and parser specifications carry along
NoScenario == Scenario(Snapshot(<<>>, {}, "", {}, <<>>), Options("", FALSE), Target({}, {}, {}))

InitGrouper ==
    /\ ad = NoScenario.ad /\ opts = NoScenario.opts /\ target = NoScenario.target
    /\ pc = "grouper"
    /\ Idle
    /\ nodes = <<>>
    /\ g = NewGroupedCreateTestCaseWithLibraryIdInput([Db |-> "db", CampaignId |-> "campaign-1"])
    /\ added = <<>>
    /\ inserts = NotGenerated
    /\ pin = <<>>
    /\ pout = NotParsed

NextGrouper == GrouperAdd \/ GrouperGenerate

NextBackfill ==
    \/ BackfillRestoreAssessment
    \/ FindOrganization
    \/ GetAllDefenseTools
    \/ BackfillFindExistingAssessment
    \/ BackfillCreateAllTemplates
    \/ BackfillFindLibraryAssessment
    \/ BackfillGetLibraryTestCases
    \/ BackfillFetchAgain
    \/ BackfillCreateMissingTemplates
    \/ BackfillCreateAssessment
    \/ CreateCampaigns
    \/ BackfillBuildTestCases
    \/ CreateTestCases

\* RestoreAssessment of restore.go
SpecBackfill == Init /\ [][NextBackfill]_vars

SpecGrouper == InitGrouper /\ [][NextGrouper]_vars

InitParser ==
    /\ ad = NoScenario.ad /\ opts = NoScenario.opts /\ target = NoScenario.target
    /\ pc = "parser"
    /\ Idle
    /\ nodes = <<>>
    /\ g = NewGroupedCreateTestCaseWithLibraryIdInput([Db |-> "db", CampaignId |-> "campaign-1"])
    /\ added = <<>>
    /\ inserts = NotGenerated
    /\ pin \in ParserInputs
    /\ pout = NotParsed

NextParser == Parse

SpecParser == InitParser /\ [][NextParser]_vars

InitFilter ==
    /\ ad = NoScenario.ad /\ opts = NoScenario.opts /\ target = NoScenario.target
    /\ pc = "filter"
    /\ Idle
    /\ nodes = <<>>
    /\ g = NewGroupedCreateTestCaseWithLibraryIdInput([Db |-> "db", CampaignId |-> "campaign-1"])
    /\ added = <<>>
    /\ inserts = NotGenerated
    /\ pin = <<>>
    /\ pout = NotParsed

NextFilter == NewFilter \/ FilterCheckAssessment

SpecFilter == InitFilter /\ [][NextFilter]_vars

\* an assessment of the source database called SaveName
SourceAssessment(orgs, bundle, camps) ==
    [Name |-> SaveName,
     Organizations |-> orgs,
     Metadata |-> SetToBag({[Key |-> "prefix", Value |-> "px"]}
                           \cup (IF bundle = "" THEN {} ELSE {[Key |-> "bundle", Value |-> bundle]})),
     Campaigns |-> camps]

SourceAssessments ==
    {SourceAssessment(orgs, bundle, camps) :
        orgs \in {{"o1"}, {"o1", "o2"}}, bundle \in {"", "T"}, camps \in SaveCampaignLists}

\* what the name lookup can answer: nothing, one assessment, two of the same name
SaveNodes ==
    {<<>>} \cup {<<a>> : a \in SourceAssessments}
    \cup {<<a, SourceAssessment({"o1"}, "", <<>>)>> : a \in SourceAssessments}

InitSave ==
    /\ ad = NoScenario.ad /\ opts = NoScenario.opts
    /\ \E ts \in {Uuids, {"L1"}} :
          target = [Target({}, {}, ts) EXCEPT !.tools = [n \in {"t1", "t2"} |-> SourceTool(n)]]
    /\ pc = "save"
    /\ Idle
    /\ nodes \in SaveNodes
    /\ g = NewGroupedCreateTestCaseWithLibraryIdInput([Db |-> "db", CampaignId |-> "campaign-1"])
    /\ added = <<>>
    /\ inserts = NotGenerated
    /\ pin = <<>>
    /\ pout = NotParsed

NextSave == SaveAssessmentData \/ SaveGetLibraryTestCases \/ SaveGetAllDefenseTools

SpecSave == InitSave /\ [][NextSave]_vars

----------------------------------------------------------------------------
(* Properties *)

\* the names of the snapshot's Organizations list the target has no match for
AbsentOrgs == SelectSeq(ad.Organizations, LAMBDA o : o \notin target.orgs)

\* the names looked up so far in this invocation, in call order
OrgLookups ==
    LET cs == CallsOf(calls, "FindOrganization") IN [k \in DOMAIN cs |-> cs[k].arg]

OrgLookupFailed == result.err = "remote" /\ result.info.op = "FindOrganization"

\* C1: when no organization lookup fails remotely and at least one name of the
\* snapshot's Organizations list has no match in the target, every name of
\* the list has been looked up, the invocation has ended with ErrOrgNotFound,
\* and the names it reports are exactly the absent ones.
MissingOrganizationsAllReported ==
    (pc = "done" /\ Len(AbsentOrgs) >= 1 /\ ~OrgLookupFailed)
        => /\ OrgLookups = ad.Organizations
           /\ result.err = "ErrOrgNotFound"
           /\ result.info = AbsentOrgs

\* C1 witness: two names, the first absent and the second present; both were
\* looked up and only the first is reported.
MissingOrganizationsWitness ==
    /\ pc = "done"
    /\ result.err = "ErrOrgNotFound"
    /\ Len(ad.Organizations) = 2
    /\ ad.Organizations[1] \notin target.orgs
    /\ ad.Organizations[2] \in target.orgs
    /\ Len(OrgLookups) = 2
    /\ result.info = <<ad.Organizations[1]>>

\* the name the assessment is created under: the override when non-empty
EffectiveName == IF opts.AssessmentName # "" THEN opts.AssessmentName ELSE ad.Assessment.Name

\* C2: while the target holds an assessment of the effective name, no step of
\* validation or of the existing-assessment check issues a write call or
\* changes the target, the check itself ends the invocation, with
\* ErrAssessmentAlreadyExists when the lookup is answered, and an invocation
\* that ended with ErrAssessmentAlreadyExists has issued no write call.
AlreadyExistsWritesNothing ==
    /\ [][(pc \in {"orgs", "tools", "exists"} /\ EffectiveName \in target.assessments)
            => /\ Writes(calls') = <<>>
               /\ target' = target
               /\ pc' \in {"orgs", "tools", "exists", "done"}
               /\ (pc = "exists" =>
                      /\ pc' = "done"
                      /\ \/ result'.err = "ErrAssessmentAlreadyExists"
                         \/ result'.err = "remote" /\ result'.info.op = "FindExistingAssessment")]_vars
    /\ []((pc = "done" /\ result.err = "ErrAssessmentAlreadyExists")
            => /\ Writes(calls) = <<>>
               /\ EffectiveName \in target.assessments
               /\ result.info = <<EffectiveName>>)

\* C2 witness: the second invocation, after a first that created the
\* assessment, has ended with ErrAssessmentAlreadyExists and no write call.
SecondRestoreRejectedWitness ==
    /\ runs = 2
    /\ pc = "done"
    /\ result.err = "ErrAssessmentAlreadyExists"
    /\ Writes(calls) = <<>>
    /\ opts.AssessmentName = "B"

\* the library ids of the inputs of one batch
BatchIds(batch) ==
    [k \in DOMAIN batch.CreateTestCaseInputs |-> batch.CreateTestCaseInputs[k].LibraryTestCaseId]

\* C3: no batch returned by GenerateInsertsData holds two test cases with the
\* same LibraryTestCaseId, whatever was added and in whatever order.
NoBatchRepeatsLibraryId ==
    inserts.called =>
        \A b \in DOMAIN inserts.batches :
            LET ids == BatchIds(inserts.batches[b])
            IN \A i, j \in DOMAIN ids : i # j => ids[i] # ids[j]

\* C3 witness: a library id was added twice and the first batch holds two
\* test cases.
NoBatchRepeatsWitness ==
    /\ inserts.called
    /\ \E i, j \in DOMAIN added : i # j /\ added[i].LibraryTestCaseId = added[j].LibraryTestCaseId
    /\ Len(inserts.batches) >= 2
    /\ Len(inserts.batches[1].CreateTestCaseInputs) >= 2

\* the number of added test cases linked to the library id id
BucketSize(id) == Len(SelectSeq(added, LAMBDA tcd : tcd.LibraryTestCaseId = id))

\* the size of the largest bucket, counted from the Add calls
LargestBucket ==
    CHOOSE n \in {BucketSize(id) : id \in GrouperIds} : \A id \in GrouperIds : BucketSize(id) <= n

\* C4: GenerateInsertsData returns as many batches as the largest bucket has
\* entries, the i-th batch holding one entry of every bucket with at least i
\* entries; with nothing added it returns no batch.
BatchCountIsMaxDepth ==
    inserts.called =>
        /\ Len(inserts.batches) = LargestBucket
        /\ \A b \in DOMAIN inserts.batches :
              Len(inserts.batches[b].CreateTestCaseInputs)
                  = Cardinality({id \in GrouperIds : BucketSize(id) >= b})
        /\ (added = <<>> => inserts.batches = <<>>)

\* C4 witness: buckets of sizes 3, 1 and 2 gave three batches of sizes 3, 2, 1.
BatchCountWitness ==
    /\ inserts.called
    /\ BucketSize("L1") = 3 /\ BucketSize("L2") = 1 /\ BucketSize("L3") = 2
    /\ Len(inserts.batches) = 3
    /\ Len(inserts.batches[1].CreateTestCaseInputs) = 3
    /\ Len(inserts.batches[2].CreateTestCaseInputs) = 2
    /\ Len(inserts.batches[3].CreateTestCaseInputs) = 1

\* the template-assessment mode of restore.go
TemplateMode == opts.OverrideAssessmentTemplate = FALSE /\ ad.TemplateAssessment # ""

\* the ids of the templates a CreateTemplateTestCases call carries
TemplateIdsOf(c) == {d.LibraryTestCaseId : d \in c.arg.TestCaseTemplateData}

\* C5: in template-assessment mode, once the batch fetch has reported a
\* non-empty set of ids as invalid and no remote call fails, the invocation
\* has created templates for exactly those ids in one CreateTemplateTestCases
\* call and holds a template for every library id of the snapshot; this for
\* every non-empty set, the set of all referenced ids included.
BackfillCreatesExactlyMissing ==
    (pc = "done" /\ TemplateMode /\ library_assessment_found /\ template_input # {}
        /\ result.err # "remote")
        => LET cs == CallsOf(calls, "CreateTemplateTestCases")
           IN /\ Len(cs) = 1
              /\ TemplateIdsOf(cs[1]) = template_input
              /\ DOMAIN instance_library_test_case = DOMAIN ad.LibraryTestCases

\* C6: in template-assessment mode with the named library assessment absent
\* from the target and no remote call failing, an invocation in which some
\* referenced library id was reported missing ends with
\* ErrMissingLibraryAssessment, and one in which every id resolved goes on to
\* create the assessment.
MissingLibraryAssessmentIsAnError ==
    /\ (pc = "done" /\ TemplateMode /\ ~library_assessment_found /\ template_input # {}
           /\ result.err # "remote")
          => result.err = "ErrMissingLibraryAssessment"
    /\ (pc = "done" /\ TemplateMode /\ ~library_assessment_found /\ template_input = {}
           /\ result.err \notin {"remote", "parse", "panic"}
           /\ CallsOf(calls, "GetLibraryTestCases") # <<>>)
          => CallsOf(calls, "CreateAssessment") # <<>>

\* C7: an invocation that ended at the batch fetch of the library ids, on an
\* error other than a well-formed list of missing ids, has created no
\* template and returns the remote error it received.
FetchFailurePropagatesRemoteError ==
    (pc = "done" /\ Len(calls) > 0 /\ calls[Len(calls)].op = "GetLibraryTestCases"
        /\ result.err # "missing ids")
        => /\ Writes(calls) = <<>>
           /\ result.err = "remote"
           /\ result.info.op = "GetLibraryTestCases"

\* strings.Join(items, ", ") for items that are token sequences
RECURSIVE JoinItems(_)
JoinItems(items) ==
    IF Len(items) = 0 THEN <<>>
    ELSE IF Len(items) = 1 THEN items[1]
    ELSE items[1] \o Separator \o JoinItems(Tail(items))

\* list entries: the two UUIDs, a text that is no UUID, the empty text
ListEntries == {<<u>> : u \in Uuids} \cup {<<"x">>, <<>>}

\* C8: ParseLibraryTestcasesByIdsError returns the ids in order and no error
\* for the prefix followed by one or more UUIDs joined by ", "; it returns an
\* error and no ids for the prefix alone, for an input without the prefix,
\* and for a list with an entry that is no UUID.
ParserReturnsIdsInOrder ==
    pc = "parsed" =>
        /\ \A ids \in SeqsUpTo(Uuids, MaxBody) :
              (Len(ids) >= 1 /\ pin = LongPrefix \o Join(ids))
                  => pout = [ids |-> ids, err |-> "nil"]
        /\ (pin = LongPrefix \/ ~HasPrefix(pin, LongPrefix))
              => pout.err # "nil" /\ pout.ids = <<>>
        /\ \A items \in SeqsUpTo(ListEntries, MaxBody) :
              (Len(items) >= 1 /\ pin = LongPrefix \o JoinItems(items)
                   /\ \E k \in DOMAIN items : items[k] \notin {<<u>> : u \in Uuids})
                  => pout.err # "nil" /\ pout.ids = <<>>

\* C8 witness: two UUIDs after the prefix came back in the same order.
ParserWitness ==
    /\ pc = "parsed"
    /\ pin = LongPrefix \o <<"L2", ",", " ", "L1">>
    /\ pout = [ids |-> <<"L2", "L1">>, err |-> "nil"]

UnknownStatusAborted == pc = "done" /\ result.err = "outcome not found"

\* the test case the invocation stopped at: the first of campaign ci whose
\* status the table lacks
OffendingTestCase ==
    LET tcs == campaignsToRestore[ci].TestCases
    IN tcs[CHOOSE k \in DOMAIN tcs :
               /\ tcs[k].Status \notin DOMAIN outcomeStatusMap
               /\ \A j \in 1..(k - 1) : tcs[j].Status \in DOMAIN outcomeStatusMap]

CanonicalOf(st) ==
    CASE st = "Abandoned" -> TestCaseStatusAbandon
      [] st = "Not Performed" -> TestCaseStatusNotperformed
      [] OTHER -> st

\* the test cases a create request carries
SentTestCaseData(c) ==
    IF c.op = "CreateTestCasesByLibraryId"
    THEN [k \in DOMAIN c.arg.CreateTestCaseInputs |-> c.arg.CreateTestCaseInputs[k].TestCaseData]
    ELSE IF c.op = "CreateTestCasesNoTemplate" THEN c.arg.TestCaseData
    ELSE <<>>

\* the snapshot test cases named name in the campaigns created under the id cid
SnapshotTestCases(cid, name) ==
    {campaignsToRestore[k].TestCases[j] :
        <<k, j>> \in {x \in (DOMAIN campaignsToRestore) \X (1..MaxTestCases) :
                        /\ x[2] \in DOMAIN campaignsToRestore[x[1]].TestCases
                        /\ CampaignIdOf(campaign_map, campaignsToRestore[x[1]].Name) = cid
                        /\ campaignsToRestore[x[1]].TestCases[x[2]].Name = name}}

\* C10: every test case of every create request carries a status of the
\* canonical enumeration, the canonical status of the snapshot status of the
\* test case it was built from: "Abandoned" and "Not Performed" become
\* TestCaseStatusAbandon and TestCaseStatusNotperformed, a canonical status
\* stays as it is.
SentStatusIsCanonical ==
    \A n \in DOMAIN calls :
        LET sent == SentTestCaseData(calls[n])
        IN \A k \in DOMAIN sent :
              /\ sent[k].Status \in CanonicalStatuses
              /\ \E tc \in SnapshotTestCases(calls[n].arg.CampaignId, sent[k].Name) :
                    sent[k].Status = CanonicalOf(tc.Status)

\* C10 witness: a finished invocation sent a test case saved as "Abandoned"
\* and one saved as "Not Performed" under their canonical statuses.
SentStatusWitness ==
    /\ pc = "done" /\ result.err = "nil"
    /\ Len(campaignsToRestore) = 1
    /\ Len(campaignsToRestore[1].TestCases) = 2
    /\ campaignsToRestore[1].TestCases[1].Status = "Abandoned"
    /\ campaignsToRestore[1].TestCases[2].Status = "Not Performed"
    /\ Len(calls) >= 2
    /\ SentTestCaseData(calls[Len(calls) - 1])[1].Status = TestCaseStatusAbandon
    /\ SentTestCaseData(calls[Len(calls)])[1].Status = TestCaseStatusNotperformed

\* C11: the step that validates the tools, taken once every organization has
\* resolved and with the registry fetch answered, succeeds exactly when every
\* name of the snapshot's ToolsMap is in the target's registry; it then
\* leaves a tool map whose keys are the referenced names, each bound to the
\* target's tool of that name; otherwise the invocation ends with
\* ErrMissingTools.  The registry is fetched once per invocation.
ToolValidationMatchesRegistry ==
    /\ [][pc = "tools" =>
            \/ pc' = "done" /\ result'.err = "remote" /\ result'.info.op = "GetAllDefenseTools"
            \/ /\ DOMAIN ad.ToolsMap \subseteq DOMAIN target.tools
               /\ pc' = "exists"
               /\ result' = Running
               /\ DOMAIN tool_map' = DOMAIN ad.ToolsMap
               /\ \A n \in DOMAIN ad.ToolsMap : tool_map'[n] = target.tools[n]
            \/ /\ ~(DOMAIN ad.ToolsMap \subseteq DOMAIN target.tools)
               /\ pc' = "done"
               /\ result'.err = "ErrMissingTools"]_vars
    /\ [](Len(CallsOf(calls, "GetAllDefenseTools")) <= 1)
    /\ [](result.err = "ErrMissingTools" => ~(DOMAIN ad.ToolsMap \subseteq DOMAIN target.tools))

\* C11 witness: the snapshot's one tool is in the registry, which holds two;
\* validation passed with a map of that one tool.
ToolValidationWitness ==
    /\ pc = "exists"
    /\ DOMAIN ad.ToolsMap = {"t1"}
    /\ DOMAIN tool_map = {"t1"}
    /\ tool_map["t1"] = target.tools["t1"]
    /\ DOMAIN target.tools = {"t1", "t2"}
    /\ Len(CallsOf(calls, "GetAllDefenseTools")) = 1

\* the invocation returned an error of validateRestorePrerequisites
ValidationFailed ==
    \/ result.err \in {"ErrOrgNotFound", "ErrMissingTools"}
    \/ result.err = "remote" /\ result.info.op \in {"FindOrganization", "GetAllDefenseTools"}

\* C12: prerequisite validation issues only remote reads; when it fails
\* (missing organization, missing tool or a failed lookup) RestoreAssessment
\* and RestoreCampaign return the error with no create call issued and with
\* no organization or tool map left to use, and a create call is only ever
\* issued with the complete organization and tool maps.
ValidationIsAllOrNothing ==
    /\ pc \in {"orgs", "tools"}
          => \A k \in DOMAIN calls : calls[k].op \in {"FindOrganization", "GetAllDefenseTools"}
    /\ ValidationFailed
          => /\ pc = "done"
             /\ Writes(calls) = <<>>
             /\ \A k \in DOMAIN calls : calls[k].op \in {"FindOrganization", "GetAllDefenseTools"}
             /\ org_map = EmptyMap
             /\ tool_map = EmptyMap
    /\ Writes(calls) # <<>>
          => /\ \A k \in DOMAIN ad.Organizations : ad.Organizations[k] \in DOMAIN org_map
             /\ DOMAIN tool_map = DOMAIN ad.ToolsMap

ValidationFailedWitness ==
    /\ entry = "RestoreCampaign"
    /\ result.err = "ErrMissingTools"
    /\ Len(CallsOf(calls, "FindOrganization")) = 1
    /\ Len(CallsOf(calls, "GetAllDefenseTools")) = 1
    /\ Writes(calls) = <<>>

\* C13: with OverrideAssessmentTemplate set, RestoreAssessment issues neither
\* the library-assessment lookup nor the batch library-id fetch; when the
\* snapshot carries a library test case, one CreateTemplateTestCases call with
\* Overwrite = true and every library test case of the snapshot precedes
\* CreateAssessment; with no library test case there is no template call.
OverrideModeCreatesAllTemplates ==
    (entry = "RestoreAssessment" /\ opts.OverrideAssessmentTemplate) =>
        LET templateCalls == CallsOf(calls, "CreateTemplateTestCases")
        IN /\ CallsOf(calls, "FindLibraryAssessment") = <<>>
           /\ CallsOf(calls, "GetLibraryTestCases") = <<>>
           /\ Len(templateCalls) <= 1
           /\ DOMAIN ad.LibraryTestCases = {} => templateCalls = <<>>
           /\ \A k \in DOMAIN templateCalls :
                 /\ templateCalls[k].arg.Overwrite = TRUE
                 /\ templateCalls[k].arg.TestCaseTemplateData =
                       {[LibraryTestCaseId |-> ad.LibraryTestCases[id].LibraryTestCaseId,
                         Name |-> ad.LibraryTestCases[id].Name] : id \in DOMAIN ad.LibraryTestCases}
           /\ \A k \in DOMAIN calls :
                 (calls[k].op = "CreateAssessment" /\ DOMAIN ad.LibraryTestCases # {})
                    => \E j \in 1..(k - 1) : calls[j].op = "CreateTemplateTestCases"

OverrideModeWitness ==
    /\ entry = "RestoreAssessment"
    /\ opts.OverrideAssessmentTemplate
    /\ ad.TemplateAssessment = "T"
    /\ DOMAIN ad.LibraryTestCases = {"L1", "L2"}
    /\ target.templates = {"L1", "L2"}
    /\ Len(CallsOf(calls, "CreateTemplateTestCases")) = 1
    /\ Len(CallsOf(calls, "CreateAssessment")) = 1

\* C14: when the snapshot names no template assessment, RestoreAssessment
\* creates the template test cases from the serialized library test cases as
\* in override mode, whether or not the override flag is set: no batch
\* library-id fetch, and one CreateTemplateTestCases call with Overwrite = true
\* and every library test case precedes CreateAssessment.
NoTemplateAssessmentCreatesTemplates ==
    (entry = "RestoreAssessment" /\ ad.TemplateAssessment = "") =>
        LET templateCalls == CallsOf(calls, "CreateTemplateTestCases")
        IN /\ CallsOf(calls, "FindLibraryAssessment") = <<>>
           /\ CallsOf(calls, "GetLibraryTestCases") = <<>>
           /\ result.err # "missing ids"
           /\ \A k \in DOMAIN templateCalls :
                 templateCalls[k].arg = TemplateInput(ad, DOMAIN ad.LibraryTestCases)
           /\ \A k \in DOMAIN calls :
                 (calls[k].op = "CreateAssessment" /\ DOMAIN ad.LibraryTestCases # {})
                    => \E j \in 1..(k - 1) : calls[j].op = "CreateTemplateTestCases"

\* the campaigns of the snapshot called sourceCampaignName, by position
NamedCampaigns == {k \in DOMAIN ad.Assessment.Campaigns : ad.Assessment.Campaigns[k].Name = sourceCampaignName}

\* the first of them in snapshot order
FirstNamedCampaign ==
    ad.Assessment.Campaigns[CHOOSE k \in NamedCampaigns : \A j \in NamedCampaigns : k <= j]

\* C15: RestoreCampaign with a sourceCampaignName that matches no campaign of
\* the snapshot fails with ErrCampaignNotFound (once validation has passed)
\* and issues no write call; when several campaigns carry the name, the one
\* campaign created and the test cases sent are those of the first of them in
\* snapshot order.
RestoreCampaignSelectsFirstMatch ==
    entry = "RestoreCampaign" =>
        /\ NamedCampaigns = {}
              => /\ Writes(calls) = <<>>
                 /\ pc \in {"orgs", "tools", "done"}
                 /\ pc = "done" => (ValidationFailed \/ result.err = "ErrCampaignNotFound")
        /\ result.err = "ErrCampaignNotFound"
              => /\ NamedCampaigns = {}
                 /\ result.info.campaign = sourceCampaignName
                 /\ Writes(calls) = <<>>
        /\ NamedCampaigns # {}
              => /\ \A n \in DOMAIN calls :
                       /\ calls[n].op = "CreateCampaigns" => calls[n].arg.CampaignData = <<sourceCampaignName>>
                       /\ \A k \in DOMAIN SentTestCaseData(calls[n]) :
                             \E j \in DOMAIN FirstNamedCampaign.TestCases :
                                /\ FirstNamedCampaign.TestCases[j].Name = SentTestCaseData(calls[n])[k].Name
                                /\ CanonicalOf(FirstNamedCampaign.TestCases[j].Status)
                                      = SentTestCaseData(calls[n])[k].Status
                 /\ (pc = "done" /\ result.err = "nil")
                       => \A j \in DOMAIN FirstNamedCampaign.TestCases :
                             \E n \in DOMAIN calls : \E k \in DOMAIN SentTestCaseData(calls[n]) :
                                /\ FirstNamedCampaign.TestCases[j].Name = SentTestCaseData(calls[n])[k].Name
                                /\ CanonicalOf(FirstNamedCampaign.TestCases[j].Status)
                                      = SentTestCaseData(calls[n])[k].Status

\* C15 witness: two campaigns are called c1 and differ in their test case;
\* RestoreCampaign for c1 has finished.
RestoreCampaignFirstMatchWitness ==
    /\ entry = "RestoreCampaign"
    /\ pc = "done" /\ result.err = "nil"
    /\ NamedCampaigns = {1, 2}
    /\ Len(ad.Assessment.Campaigns[1].TestCases) = 1
    /\ Len(ad.Assessment.Campaigns[2].TestCases) = 1
    /\ ad.Assessment.Campaigns[1].TestCases[1].Status # ad.Assessment.Campaigns[2].TestCases[1].Status
    /\ Len(CallsOf(calls, "CreateCampaigns")) = 1
    /\ Len(Writes(calls)) = 2

\* C16: RestoreCampaign never issues CreateAssessment or a template create;
\* with no assessment called targetAssessmentName in the target it fails
\* without any write; otherwise the campaign restorer runs with the id of the
\* existing assessment and exactly the one selected campaign, so the only
\* writes are that campaign and its test cases.
RestoreCampaignUsesExistingAssessment ==
    entry = "RestoreCampaign" =>
        /\ CallsOf(calls, "CreateAssessment") = <<>>
        /\ CallsOf(calls, "CreateTemplateTestCases") = <<>>
        /\ targetAssessmentName \notin target.assessments
              => /\ Writes(calls) = <<>>
                 /\ pc = "done" => result.err # "nil"
        /\ Len(CallsOf(calls, "CreateCampaigns")) <= 1
        /\ \A n \in DOMAIN calls :
              /\ calls[n].op = "CreateCampaigns"
                    => /\ targetAssessmentName \in target.assessments
                       /\ calls[n].arg.AssessmentId = AssessmentId(targetAssessmentName)
                       /\ calls[n].arg.CampaignData = <<sourceCampaignName>>
                       /\ \E j \in 1..(n - 1) : calls[j] = Call("FindExistingAssessment", targetAssessmentName)
              /\ calls[n].op \in {"CreateTestCasesByLibraryId", "CreateTestCasesNoTemplate"}
                    => /\ calls[n].arg.CampaignId = CampaignId(1)
                       /\ \E j \in 1..(n - 1) : calls[j].op = "CreateCampaigns"

\* C16 witness: RestoreCampaign has put a campaign of the snapshot of
\* assessment A under the existing assessment B.
RestoreCampaignExistingWitness ==
    /\ entry = "RestoreCampaign"
    /\ pc = "done" /\ result.err = "nil"
    /\ ad.Assessment.Name = "A"
    /\ targetAssessmentName = "B"
    /\ target.assessments = {"B"}
    /\ Len(CallsOf(calls, "CreateCampaigns")) = 1
    /\ Len(Writes(calls)) >= 2

\* C17: RestoreAssessment returns ErrInvalidAssessmentName when the assessment
\* name override of RestoreOptionalParams is blank: nothing is written under
\* the blank name and, once validation has passed, the invocation ends with
\* that error.
BlankOverrideIsRejected ==
    (entry = "RestoreAssessment" /\ opts.AssessmentName = " ") =>
        /\ Writes(calls) = <<>>
        /\ pc \in {"orgs", "tools", "done"}
        /\ pc = "done" => (ValidationFailed \/ result.err = "ErrInvalidAssessmentName")

\* C18 as stated: a step of RestoreAssessment or RestoreCampaign changes the
\* caller's snapshot only in the load-side stamp and by adding provenance
\* pairs to Assessment.Metadata; every other field, Assessment.Name included,
\* keeps its value.
SnapshotChangesOnlyProvenance ==
    [][/\ [ad' EXCEPT !.Metadata.LoadData = ad.Metadata.LoadData,
                      !.Assessment.Metadata = ad.Assessment.Metadata] = ad
       /\ ad.Assessment.Metadata \sqsubseteq ad'.Assessment.Metadata]_vars

\* C18, amended: besides the provenance metadata, RestoreAssessment with a
\* non-empty name override sets Assessment.Name of the caller's snapshot to
\* the override; no other field changes, and RestoreCampaign changes nothing.
SnapshotChangesProvenanceAndName ==
    [][/\ [ad' EXCEPT !.Metadata.LoadData = ad.Metadata.LoadData,
                      !.Assessment.Metadata = ad.Assessment.Metadata,
                      !.Assessment.Name = ad.Assessment.Name] = ad
       /\ ad.Assessment.Metadata \sqsubseteq ad'.Assessment.Metadata
       /\ ad'.Assessment.Name # ad.Assessment.Name
             => /\ entry = "RestoreAssessment"
                /\ opts.AssessmentName # ""
                /\ ad'.Assessment.Name = opts.AssessmentName
       /\ entry' = "RestoreCampaign" => ad' = ad]_vars

\* C18 witness: a finished RestoreAssessment with the override B left the
\* snapshot renamed and stamped.
SnapshotRenamedWitness ==
    /\ entry = "RestoreAssessment"
    /\ pc = "done" /\ result.err = "nil"
    /\ opts.AssessmentName = "B"
    /\ ad.Assessment.Name = "B"
    /\ ad.Metadata.LoadData # NilStamp
    /\ Cardinality(BagToSet(ad.Assessment.Metadata)) > 1

CheckAssessmentMatchesEntries ==
    checked.called =>
        (checked.result <=>
            \/ HasPair(databaseAssessmentPairs, checked.db, checked.assessment)
            \/ HasPair(databaseAssessmentPairs, checked.db, "*")
            \/ HasPair(databaseAssessmentPairs, "*", checked.assessment)
            \/ HasPair(databaseAssessmentPairs, "*", "*"))

\* C21: SaveAssessmentData returns ErrNoAssessmentsFound when the name lookup
\* yields no assessment and ErrTooManyAssessmentsFound when more than one
\* assessment matches; in both cases no snapshot is returned and the lookup
\* is the only remote call.
SaveRejectsNoneAndMany ==
    (pc = "done" /\ result.err # "remote" /\ Len(nodes) # 1) =>
        /\ Len(nodes) = 0 => result.err = "ErrNoAssessmentsFound"
        /\ Len(nodes) > 1 => result.err = "ErrTooManyAssessmentsFound"
        /\ data.nil
        /\ Len(calls) = 1
        /\ calls[1].op = "GetAllAssessments"

\* the test cases added so far that carry the library id id, in Add order
AddedWithId(id) == SelectSeq(added, LAMBDA t : t.LibraryTestCaseId = id)

\* the library ids with at least n added test cases
IdsWithDepth(n) == {t.LibraryTestCaseId : t \in {x \in Range(added) : Len(AddedWithId(x.LibraryTestCaseId)) >= n}}

\* C22: batch i of GenerateInsertsData holds, for each library-id bucket with
\* at least i+1 entries, exactly that bucket's i-th entry in Add order and
\* nothing else; batch sizes never increase with i; every batch carries the
\* grouper's base Db and CampaignId.
BatchHoldsIthEntries ==
    inserts.called =>
        \A n \in DOMAIN inserts.batches :
            LET b == inserts.batches[n]
            IN /\ Range(b.CreateTestCaseInputs) = {AddedWithId(id)[n] : id \in IdsWithDepth(n)}
               /\ Len(b.CreateTestCaseInputs) = Cardinality(IdsWithDepth(n))
               /\ b.Db = g.Base.Db
               /\ b.CampaignId = g.Base.CampaignId
               /\ n > 1 => Len(b.CreateTestCaseInputs) <= Len(inserts.batches[n - 1].CreateTestCaseInputs)

\* C22 witness: three batches of sizes 2, 2 and 1 out of five test cases on
\* two library ids.
BatchHoldsIthEntriesWitness ==
    /\ inserts.called
    /\ Len(added) = 5
    /\ Len(inserts.batches) = 3
    /\ Len(inserts.batches[1].CreateTestCaseInputs) = 2
    /\ Len(inserts.batches[2].CreateTestCaseInputs) = 2
    /\ Len(inserts.batches[3].CreateTestCaseInputs) = 1

\* the positions of the batches that hold the test case t
BatchPositions(t) ==
    {<<n, k>> \in (DOMAIN inserts.batches) \X (1..MaxAdds + 1) :
        /\ k \in DOMAIN inserts.batches[n].CreateTestCaseInputs
        /\ inserts.batches[n].CreateTestCaseInputs[k] = t}

RECURSIVE SumBatchSizes(_)
SumBatchSizes(bs) ==
    IF Len(bs) = 0 THEN 0 ELSE Len(Head(bs).CreateTestCaseInputs) + SumBatchSizes(Tail(bs))

\* C23: the grouper neither drops nor duplicates test cases: every added test
\* case occurs in exactly one batch of GenerateInsertsData, the batch sizes
\* sum to Len(), and GenerateInsertsData leaves the buckets unchanged, a
\* second call yielding the same batches up to the order inside a batch.
GrouperKeepsEveryTestCase ==
    /\ [](inserts.called =>
             /\ \A t \in Range(added) : Cardinality(BatchPositions(t)) = 1
             /\ SumBatchSizes(inserts.batches) = GrouperLen(g)
             /\ GrouperLen(g) = Len(added))
    /\ [][inserts'.called =>
             /\ inserts.called => g' = g
             /\ (inserts.called /\ added' = added) =>
                   /\ Len(inserts'.batches) = Len(inserts.batches)
                   /\ \A n \in DOMAIN inserts.batches :
                         /\ Range(inserts'.batches[n].CreateTestCaseInputs)
                               = Range(inserts.batches[n].CreateTestCaseInputs)
                         /\ Len(inserts'.batches[n].CreateTestCaseInputs)
                               = Len(inserts.batches[n].CreateTestCaseInputs)]_vars

\* C23 witness: four test cases on two library ids came out in two batches.
GrouperKeepsWitness ==
    /\ inserts.called
    /\ Len(added) = 4
    /\ Len(inserts.batches) = 2
    /\ SumBatchSizes(inserts.batches) = 4
    /\ inserts.batches[1].CreateTestCaseInputs[1].LibraryTestCaseId
          # inserts.batches[1].CreateTestCaseInputs[2].LibraryTestCaseId

\* the place of a remote operation in the order of a full restore
OpRank(op) ==
    CASE op = "FindOrganization" -> 1
      [] op = "GetAllDefenseTools" -> 2
      [] op = "FindExistingAssessment" -> 3
      [] op \in {"FindLibraryAssessment", "GetLibraryTestCases", "CreateTemplateTestCases"} -> 4
      [] op = "CreateAssessment" -> 5
      [] op = "CreateCampaigns" -> 6
      [] OTHER -> 7

\* C24: in every run of RestoreAssessment the remote operations occur in the
\* order organization lookups, tool-registry fetch, existing-assessment
\* lookup, template resolution, CreateAssessment, CreateCampaigns, test-case
\* creates; CreateAssessment is issued only after validation, the
\* already-exists check and template resolution have succeeded; and
\* CreateCampaigns is issued once, right after CreateAssessment succeeded.
RestoreOperationsInOrder ==
    entry = "RestoreAssessment" =>
        /\ \A i, j \in DOMAIN calls : i < j => OpRank(calls[i].op) <= OpRank(calls[j].op)
        /\ \A op \in {"GetAllDefenseTools", "FindExistingAssessment", "CreateAssessment", "CreateCampaigns"} :
              Len(CallsOf(calls, op)) <= 1
        /\ CallsOf(calls, "CreateAssessment") # <<>>
              => /\ Len(CallsOf(calls, "FindOrganization")) = Len(ad.Organizations)
                 /\ Range(ad.Organizations) \subseteq target.orgs
                 /\ Len(CallsOf(calls, "GetAllDefenseTools")) = 1
                 /\ DOMAIN ad.ToolsMap \subseteq DOMAIN target.tools
                 /\ CallsOf(calls, "FindExistingAssessment") = <<Call("FindExistingAssessment", ad.Assessment.Name)>>
                 /\ DOMAIN ad.LibraryTestCases \subseteq target.templates
                 /\ opts.OverrideAssessmentTemplate
                       => (DOMAIN ad.LibraryTestCases # {} <=> CallsOf(calls, "CreateTemplateTestCases") # <<>>)
                 /\ ~opts.OverrideAssessmentTemplate
                       => (DOMAIN ad.LibraryTestCases # {} <=> CallsOf(calls, "GetLibraryTestCases") # <<>>)
        /\ \A k \in DOMAIN calls :
              calls[k].op = "CreateCampaigns"
                 => /\ k > 1
                    /\ calls[k - 1].op = "CreateAssessment"
                    /\ ad.Assessment.Name \in target.assessments
        /\ (pc = "done" /\ result.err = "nil") => Len(CallsOf(calls, "CreateCampaigns")) = 1
        /\ pc \in {"campaigns", "testcases", "send"} => Len(CallsOf(calls, "CreateAssessment")) = 1

\* C24 witness: a finished restore that went through every kind of
\* operation, the library lookups included.
RestoreOperationsWitness ==
    /\ entry = "RestoreAssessment"
    /\ pc = "done" /\ result.err = "nil"
    /\ {calls[k].op : k \in DOMAIN calls} =
          {"FindOrganization", "GetAllDefenseTools", "FindExistingAssessment", "FindLibraryAssessment",
           "GetLibraryTestCases", "CreateAssessment", "CreateCampaigns",
           "CreateTestCasesByLibraryId", "CreateTestCasesNoTemplate"}

TestCaseOps == {"CreateTestCasesByLibraryId", "CreateTestCasesNoTemplate"}

\* the test cases of campaign c linked to the library id id, in snapshot order
LinkedTo(c, id) == SelectSeq(c.TestCases, LAMBDA t : ~IsStandalone(t) /\ t.LibraryTestCaseId = id)

\* the library ids with at least m linked test cases in campaign c
LinkedIds(c, m) ==
    {t.LibraryTestCaseId : t \in {x \in Range(c.TestCases) : ~IsStandalone(x) /\ Len(LinkedTo(c, x.LibraryTestCaseId)) >= m}}

\* the requests campaign c is expected to produce: a by-library-id request
\* for each depth m that some library id reaches, then the no-template
\* request if the campaign has a standalone test case; each with the names
\* of its test cases
RECURSIVE ExpectedBatches(_, _)
ExpectedBatches(c, m) ==
    IF LinkedIds(c, m) = {} THEN <<>>
    ELSE <<[op |-> "CreateTestCasesByLibraryId",
            names |-> {LinkedTo(c, id)[m].Name : id \in LinkedIds(c, m)}]>>
         \o ExpectedBatches(c, m + 1)

ExpectedOfCampaign(c) ==
    ExpectedBatches(c, 1)
    \o (IF \E t \in Range(c.TestCases) : IsStandalone(t)
        THEN <<[op |-> "CreateTestCasesNoTemplate",
                names |-> {t.Name : t \in {x \in Range(c.TestCases) : IsStandalone(x)}}]>>
        ELSE <<>>)

RECURSIVE ExpectedRequests(_)
ExpectedRequests(cs) ==
    IF Len(cs) = 0 THEN <<>> ELSE ExpectedOfCampaign(Head(cs)) \o ExpectedRequests(Tail(cs))

\* the test-case requests issued so far, each with the names it carries
IssuedRequests ==
    LET tcs == SelectSeq(calls, LAMBDA c : c.op \in TestCaseOps)
    IN [k \in DOMAIN tcs |->
          [op |-> tcs[k].op,
           names |-> {SentTestCaseData(tcs[k])[j].Name : j \in DOMAIN SentTestCaseData(tcs[k])}]]

\* C25: the campaign restorer takes the campaigns in snapshot order and for
\* each sends the grouper batches in batch-index order, one call per batch,
\* then the no-template request once; the first failing test-case call is
\* the last call of the invocation, so the requests issued are always a
\* prefix of that sequence, and the whole of it on success.
TestCaseRequestsInOrder ==
    LET expected == ExpectedRequests(campaignsToRestore)
    IN /\ Len(IssuedRequests) <= Len(expected)
       /\ IssuedRequests = SubSeq(expected, 1, Len(IssuedRequests))
       /\ (pc = "done" /\ result.err = "nil") => IssuedRequests = expected
       /\ (result.err = "remote" /\ result.info.op \in TestCaseOps)
             => /\ pc = "done"
                /\ calls[Len(calls)].op = result.info.op
                /\ Len(IssuedRequests) >= 1

\* C25 witness: the first of two batches of a campaign failed, and neither
\* the second batch nor the no-template request was sent.
TestCaseRequestsWitness ==
    /\ result.err = "remote"
    /\ result.info.op = "CreateTestCasesByLibraryId"
    /\ Len(IssuedRequests) = 1
    /\ Len(ExpectedRequests(campaignsToRestore)) >= 2
    /\ ExpectedRequests(campaignsToRestore)[2].op = "CreateTestCasesByLibraryId"

\* the names of the test cases of tcs with an empty or "null" library id, in order
StandaloneNames(tcs) ==
    LET alone == SelectSeq(tcs, LAMBDA t : t.LibraryTestCaseId \in {"", "null"})
    IN [k \in DOMAIN alone |-> alone[k].Name]

\* the campaigns being restored that have a standalone test case
CampaignsWithStandalone == {k \in DOMAIN campaignsToRestore : StandaloneNames(campaignsToRestore[k].TestCases) # <<>>}

\* C26: a test case whose LibraryTestCaseId is empty or "null" is sent only
\* through the no-template path; a campaign produces at most one no-template
\* call, with all its standalone test cases in original order, and none when
\* it has no standalone test case; every other test case is sent only
\* through the by-library-id path under its own library id.
StandaloneBypassesGrouper ==
    /\ \A n \in DOMAIN calls :
          /\ calls[n].op = "CreateTestCasesNoTemplate"
                => \E k \in CampaignsWithStandalone :
                      /\ calls[n].arg.CampaignId = CampaignIdOf(campaign_map, campaignsToRestore[k].Name)
                      /\ [j \in DOMAIN calls[n].arg.TestCaseData |-> calls[n].arg.TestCaseData[j].Name]
                            = StandaloneNames(campaignsToRestore[k].TestCases)
          /\ calls[n].op = "CreateTestCasesByLibraryId"
                => \A j \in DOMAIN calls[n].arg.CreateTestCaseInputs :
                      LET sent == calls[n].arg.CreateTestCaseInputs[j]
                      IN /\ sent.LibraryTestCaseId \notin {"", "null"}
                         /\ \E k \in DOMAIN campaignsToRestore :
                               \E t \in Range(campaignsToRestore[k].TestCases) :
                                  /\ t.Name = sent.TestCaseData.Name
                                  /\ t.LibraryTestCaseId = sent.LibraryTestCaseId
                                  /\ calls[n].arg.CampaignId = CampaignIdOf(campaign_map, campaignsToRestore[k].Name)
    /\ Len(CallsOf(calls, "CreateTestCasesNoTemplate")) <= Cardinality(CampaignsWithStandalone)
    /\ (pc = "done" /\ result.err = "nil")
          => Len(CallsOf(calls, "CreateTestCasesNoTemplate")) = Cardinality(CampaignsWithStandalone)

\* C26 witness: a finished restore of a campaign with one test case whose
\* library id is "null" and one linked to L1.
StandaloneWitness ==
    /\ pc = "done" /\ result.err = "nil"
    /\ Len(campaignsToRestore) = 1
    /\ Len(campaignsToRestore[1].TestCases) = 2
    /\ campaignsToRestore[1].TestCases[1].LibraryTestCaseId = "null"
    /\ campaignsToRestore[1].TestCases[2].LibraryTestCaseId = "L1"
    /\ Len(CallsOf(calls, "CreateTestCasesNoTemplate")) = 1
    /\ Len(CallsOf(calls, "CreateTestCasesByLibraryId")) = 1

\* C27: every tool outcome of a test case that is sent carries the id of a
\* tool of the target, reached through IdToolsMap and the validated tool
\* map; a test case with an outcome that misses either hop is not sent, its
\* batch fails, so no DefenseToolId sent is empty or unresolved.
SentToolIdsAreResolved ==
    \A n \in DOMAIN calls :
        \A k \in DOMAIN SentTestCaseData(calls[n]) :
            \A j \in DOMAIN SentTestCaseData(calls[n])[k].DefenseToolOutcomes :
                LET id == SentTestCaseData(calls[n])[k].DefenseToolOutcomes[j]
                IN /\ id # ""
                   /\ \E t \in DOMAIN target.tools : target.tools[t].Id = id

\* the position of the last campaign being restored that is called name
LastIndexNamed(name) ==
    CHOOSE k \in DOMAIN campaignsToRestore :
        /\ campaignsToRestore[k].Name = name
        /\ \A j \in DOMAIN campaignsToRestore : campaignsToRestore[j].Name = name => j <= k

\* C28: the name -> id map built from the CreateCampaigns response holds one
\* id per name, the last one returned for it; the test cases of every
\* campaign are written to the campaign created last under its name, so with
\* two campaigns of one name the earlier created campaign receives none, and
\* with distinct names each campaign's test cases go to its own id.
SharedNameCollapsesCampaigns ==
    CallsOf(calls, "CreateCampaigns") # <<>> /\ ~(result.err = "remote" /\ result.info.op = "CreateCampaigns")
    => /\ DOMAIN campaign_map = {campaignsToRestore[k].Name : k \in DOMAIN campaignsToRestore}
       /\ \A k \in DOMAIN campaignsToRestore :
             campaign_map[campaignsToRestore[k].Name] = CampaignId(LastIndexNamed(campaignsToRestore[k].Name))
       /\ \A n \in DOMAIN calls : \A j \in DOMAIN SentTestCaseData(calls[n]) :
             \E k \in DOMAIN campaignsToRestore :
                /\ calls[n].arg.CampaignId = CampaignId(LastIndexNamed(campaignsToRestore[k].Name))
                /\ \E t \in Range(campaignsToRestore[k].TestCases) :
                      t.Name = SentTestCaseData(calls[n])[j].Name
       /\ (pc = "done" /\ result.err = "nil")
             => \A k \in DOMAIN campaignsToRestore : \A t \in Range(campaignsToRestore[k].TestCases) :
                   \E n \in DOMAIN calls : \E j \in DOMAIN SentTestCaseData(calls[n]) :
                      /\ SentTestCaseData(calls[n])[j].Name = t.Name
                      /\ SentTestCaseData(calls[n])[j].Status = CanonicalOf(t.Status)
                      /\ calls[n].arg.CampaignId = CampaignId(LastIndexNamed(campaignsToRestore[k].Name))

\* C28 witness: two campaigns called c1 with a test case each were restored;
\* both requests went to the second created campaign.
SharedNameWitness ==
    /\ pc = "done" /\ result.err = "nil"
    /\ Len(campaignsToRestore) = 2
    /\ campaignsToRestore[1].Name = campaignsToRestore[2].Name
    /\ Len(campaignsToRestore[1].TestCases) = 1
    /\ Len(campaignsToRestore[2].TestCases) = 1
    /\ Len(SelectSeq(calls, LAMBDA c : c.op \in TestCaseOps)) = 2
    /\ \A n \in DOMAIN calls : calls[n].op \in TestCaseOps => calls[n].arg.CampaignId = CampaignId(2)

\* the first campaign being restored that has a test case whose status the
\* table lacks, 0 if there is none
FirstBadCampaign ==
    LET bad == {k \in DOMAIN campaignsToRestore :
                   \E t \in Range(campaignsToRestore[k].TestCases) : t.Status \notin DOMAIN outcomeStatusMap}
    IN IF bad = {} THEN 0 ELSE CHOOSE k \in bad : \A j \in bad : k <= j

\* C29: a status the table lacks is found only when the requests of its
\* campaign are built. The invocation that aborts on it has created the
\* assessment and, in one call, every campaign, and has written exactly the
\* test cases of the campaigns before that one; no test case of that
\* campaign or of a later one is ever sent.
UnknownStatusLeavesPartialRestore ==
    /\ FirstBadCampaign # 0 =>
          Len(IssuedRequests)
             <= Len(ExpectedRequests(SubSeq(campaignsToRestore, 1, FirstBadCampaign - 1)))
    /\ UnknownStatusAborted =>
          /\ ci = FirstBadCampaign
          /\ Len(CallsOf(calls, "CreateAssessment")) = 1
          /\ Len(CallsOf(calls, "CreateCampaigns")) = 1
          /\ Len(CallsOf(calls, "CreateCampaigns")[1].arg.CampaignData) = Len(campaignsToRestore)
          /\ DOMAIN campaign_map = {campaignsToRestore[k].Name : k \in DOMAIN campaignsToRestore}
          /\ IssuedRequests = ExpectedRequests(SubSeq(campaignsToRestore, 1, ci - 1))

\* C29 witness: the invocation aborted at the second of two campaigns after
\* it wrote the test case of the first.
PartialRestoreWitness ==
    /\ UnknownStatusAborted
    /\ ci = 2
    /\ Len(IssuedRequests) = 1
    /\ Len(CallsOf(calls, "CreateAssessment")) = 1
    /\ Len(CallsOf(calls, "CreateCampaigns")) = 1

\* how many pairs of the metadata list md have the key k
KeyCount(md, k) ==
    LET ps == {p \in BagToSet(md) : p.Key = k}
    IN BagCardinality([p \in ps |-> md[p]])

ProvenanceKeys ==
    {pre \o k : pre \in {"vat-save-", "vat-load-"}, k \in {"version", "date", "vectr-version"}}

\* C30: the metadata sent with CreateAssessment holds each provenance key
\* (vat-save-*, vat-load-*) at most once, the vat-load-* values being those
\* of the stamp this invocation made, also for a snapshot whose assessment
\* metadata holds provenance pairs of an earlier restore.
ProvenanceKeysSentOnce ==
    \A n \in DOMAIN calls :
        calls[n].op = "CreateAssessment" =>
            \A k \in ProvenanceKeys :
                /\ KeyCount(calls[n].arg.Metadata, k) <= 1
                /\ k \in DOMAIN PrefixKeys("vat-load-", serialize(ad.Metadata.LoadData))
                      => \A p \in BagToSet(calls[n].arg.Metadata) :
                            p.Key = k => p.Value = PrefixKeys("vat-load-", serialize(ad.Metadata.LoadData))[k]

====
